---- MODULE Spec2Model ----
(***************************************************************************)
(* Model of the oni-agent job queue (internal/queue): Queue, Job and the   *)
(* runner implementations, with the session handler that looks jobs up.    *)
(* Time is counted in hours.                                                *)
(***************************************************************************)
EXTENDS Integers, Sequences, FiniteSets, TLC

VARIABLES
    seq,            \* Queue.seq
    lookup,         \* Queue.lookup: id -> *Job (a pointer into jobs)
    queue,          \* Queue.queue: the buffered channel of *Job
    m,              \* Queue.m: the RWMutex
    jobs,           \* the Job objects allocated so far, each with its runner
    now,            \* the wall clock, in hours
    ticks,          \* how many times the clock has advanced
    cancelled,      \* whether the ctx given to Queue.Wait is done
    kpc,            \* position of the Queue.Wait goroutine
    cur,            \* the job Queue.Wait received and is running
    lastPurgeCheck, \* local of Queue.Wait
    sendq,          \* callers parked in a send on the full channel, in order
    sess,           \* the concurrent callers (session handlers)
    resp,           \* the last answer session.getJob gave
    api,            \* a caller driving Job.Start/Wait/Run directly
    sent,           \* history: jobs in channel-arrival order
    issued,         \* history: ids in the order NewJob issued them
    stat,           \* batchfix: what Stat finds at src, dst and tmpDst for NewFixer
    srcFiles,       \* batchfix: the files under Fixer.src, as paths from its root
    manifest,       \* batchfix: the issues listed in src/data/batch.xml
    keys,           \* batchfix: the argument of RemoveIssues
    fixer,          \* batchfix: Fixer.skipDirs and Fixer.batch
    fpc,            \* batchfix: position of the RemoveIssues call
    todo,           \* batchfix: files the walk has yet to visit
    tmp,            \* batchfix: the tree at Fixer.tmpDst
    dst,            \* batchfix: the tree at Fixer.dst
    fret,           \* batchfix: what RemoveIssues returned, and from where
    cp,             \* file: a call of Copy, its loop counter, result and attempts
    stream,         \* logstream: the Stream (Logs, lastWrite, unprocessed)
    clock,          \* logstream: the value timeNow() returns, in nanoseconds
    writes,         \* logstream: how many Write calls were made
    sio,            \* logstream: all bytes written, what the last Write returned
                    \* and read from the clock, what the last Timestamped returned
    srcXml,         \* batch.xml: the document ParseBatch reads
    xmlKeys,        \* batch.xml: the skipKeys given to ParseBatch
    batchXml,       \* batch.xml: what ParseBatch returned
    dstXml,         \* batch.xml: the document WriteBatchXML wrote
    reXml,          \* batch.xml: what ParseBatch returned for the written document
    sig             \* agent: the signal channel, the trapIntTerm goroutine, isDone

qvars == <<seq, lookup, queue, m, jobs, now, ticks, cancelled, kpc, cur,
           lastPurgeCheck, sendq, sess, resp, api, sent, issued>>
fvars == <<stat, srcFiles, manifest, keys, fixer, fpc, todo, tmp, dst, fret, cp>>
svars == <<stream, clock, writes, sio>>
xvars == <<srcXml, xmlKeys, batchXml, dstXml, reXml>>
pvars == <<sig>>
vars == <<qvars, fvars, svars, xvars, pvars>>

----------------------------------------------------------------------------
(* Bounds of the model *)

MaxJobs == 2
QueueCap == 1
MaxTicks == 1
MaxApiJobs == 1

Callers == {"c1", "c2"}

(* Program constants, in hours *)
Hour == 1
FailRetention == 24
SuccessRetention == 168
NewRetention == 720
ZeroTime == 0
NoOpID == -1

StatusPending == "pending"
StatusStarted == "started"
StatusFailStart == "couldn't start"
StatusSuccessful == "successful"
StatusFailed == "failed"

Terminal(s) == s \in {StatusSuccessful, StatusFailed, StatusFailStart}

Kinds == {"oni", "title", "patch"}

Nil == "nil"
Err == "error"
NoJob == 0
NoOne == "none"

----------------------------------------------------------------------------
(* Go maps *)

MapPut(f, k, v) == [x \in (DOMAIN f) \cup {k} |-> IF x = k THEN v ELSE f[x]]
EmptyMap == [x \in {} |-> NoJob]

(* sync.RWMutex *)
CanLockNoExclusion == TRUE

CanLock == m.writer = NoOne /\ m.readers = {}

(* an RLock that a writer does not keep out *)
CanRLockIgnoresWriter == TRUE

CanRLock == m.writer = NoOne

----------------------------------------------------------------------------
(* Runners *)

NewRunner == [state |-> "none", running |-> FALSE, err |-> Nil, waited |-> FALSE,
              startRet |-> "none", waitRet |-> "none"]

(* oniRunner.Start: venv.Command, then exec.Cmd.Start, which fails when the
   context is already done and may fail otherwise. *)
OniStartOutcomes == IF cancelled THEN {FALSE} ELSE {TRUE, FALSE}

OniStart(r, ok) ==
    [r EXCEPT !.state = IF ok THEN "working" ELSE "none",
              !.waited = FALSE, !.err = Nil,
              !.startRet = IF ok THEN Nil ELSE Err]

(* loadTitleRunner.Start: go r.run(ctx); return nil *)
TitleStart(r) == [r EXCEPT !.state = "spawned", !.startRet = Nil]

(* batchPatchRunner.Start, were it to leave the flag to the goroutine *)
PatchStartFlagless(r) == [r EXCEPT !.state = "spawned", !.startRet = Nil]

(* batchPatchRunner.Start: r.running.Store(true); go r.run(ctx); return nil *)
PatchStart(r) == [r EXCEPT !.state = "spawned", !.running = TRUE, !.startRet = Nil]

(* The first statement of each spawned goroutine *)
TitleRunBegun(r) == [r EXCEPT !.state = "working", !.running = TRUE]
PatchRunBegun(r) == [r EXCEPT !.state = "working"]

(* The work ends: the process exits; run returns, having set r.err on a
   failure, and its deferred running.Store(false) executes. *)
OniExited(r, ok) == [r EXCEPT !.state = "done", !.err = IF ok THEN Nil ELSE Err]
TitleRunEnded(r, ok) ==
    [r EXCEPT !.state = "done", !.running = FALSE, !.err = IF ok THEN r.err ELSE Err]
PatchRunEnded(r, ok) ==
    [r EXCEPT !.state = "done", !.running = FALSE, !.err = IF ok THEN r.err ELSE Err]

(* A process that is not bound to the context and runs to its own end *)
OniWorkOutcomesUnbound == {TRUE, FALSE}

(* A process bound to a cancelled context is killed, and load_titles is not
   started under one; the batch fixer takes no context. *)
OniWorkOutcomes == IF cancelled THEN {FALSE} ELSE {TRUE, FALSE}
TitleWorkOutcomes == IF cancelled THEN {FALSE} ELSE {TRUE, FALSE}
PatchWorkOutcomes == {TRUE, FALSE}

(* oniRunner.Wait is exec.Cmd.Wait: it returns when the process has exited,
   with its exit error, and with an error at once when called again. *)
OniWaitReady(r) == r.waited \/ r.state = "done"
OniWaitErr(r) == IF r.waited THEN Err ELSE r.err
OniWaited(r) == [r EXCEPT !.waited = TRUE, !.waitRet = OniWaitErr(r)]

(* loadTitleRunner.Wait and batchPatchRunner.Wait poll running, then return
   r.err. *)
TitleWaitReady(r) == ~r.running
TitleWaited(r) == [r EXCEPT !.waitRet = r.err]
PatchWaitReady(r) == ~r.running
PatchWaited(r) == [r EXCEPT !.waitRet = r.err]

(* A Job owns one runner and calls it through the runner interface *)
StartOutcomes(kind) == IF kind = "oni" THEN OniStartOutcomes ELSE {TRUE}

RunnerStart(kind, r, ok) ==
    CASE kind = "oni" -> OniStart(r, ok)
      [] kind = "title" -> TitleStart(r)
      [] kind = "patch" -> PatchStart(r)

RunnerBegun(kind, r) ==
    IF kind = "title" THEN TitleRunBegun(r) ELSE PatchRunBegun(r)

WorkOutcomes(kind) ==
    CASE kind = "oni" -> OniWorkOutcomes
      [] kind = "title" -> TitleWorkOutcomes
      [] kind = "patch" -> PatchWorkOutcomes

RunnerEnded(kind, r, ok) ==
    CASE kind = "oni" -> OniExited(r, ok)
      [] kind = "title" -> TitleRunEnded(r, ok)
      [] kind = "patch" -> PatchRunEnded(r, ok)

RunnerWaitReady(kind, r) ==
    CASE kind = "oni" -> OniWaitReady(r)
      [] kind = "title" -> TitleWaitReady(r)
      [] kind = "patch" -> PatchWaitReady(r)

RunnerWaitErr(kind, r) == IF kind = "oni" THEN OniWaitErr(r) ELSE r.err

RunnerWaited(kind, r) ==
    CASE kind = "oni" -> OniWaited(r)
      [] kind = "title" -> TitleWaited(r)
      [] kind = "patch" -> PatchWaited(r)

----------------------------------------------------------------------------
(* Job *)

(* endedAt is history: when the job last took a terminal status *)
NewJobRecord(id, kind, purgeTime) ==
    [id |-> id, kind |-> kind, status |-> StatusPending, err |-> Nil,
     queuedAt |-> ZeroTime, startedAt |-> ZeroTime, completedAt |-> ZeroTime,
     purgeAt |-> purgeTime, r |-> NewRunner, endedAt |-> ZeroTime]

NoOpJob == [id |-> NoOpID, kind |-> "noop", status |-> StatusSuccessful, err |-> Nil,
            queuedAt |-> now, startedAt |-> now, completedAt |-> now,
            purgeAt |-> ZeroTime, r |-> NewRunner, endedAt |-> now]

(* Job.Start, given what the runner's Start returned *)
JobStart(job, ok) ==
    LET r2 == RunnerStart(job.kind, job.r, ok) IN
    IF ~ok
    THEN [job EXCEPT !.r = r2, !.err = Err, !.status = StatusFailStart,
                     !.purgeAt = now + FailRetention, !.endedAt = now]
    ELSE [job EXCEPT !.r = r2, !.err = Nil, !.status = StatusStarted,
                     !.startedAt = now]

(* Job.Wait without its startedAt check *)
WaitInvalidErrOnly(job) == job.err # Nil

(* Job.Wait's two early returns *)
WaitInvalid(job) == job.err # Nil \/ job.startedAt = ZeroTime

(* Job.Wait can return: at once on an invalid state, else with the runner *)
WaitReady(job) == WaitInvalid(job) \/ RunnerWaitReady(job.kind, job.r)

(* The error Job.Wait returns *)
WaitResult(job) ==
    IF WaitInvalid(job) THEN Err ELSE RunnerWaitErr(job.kind, job.r)

(* Job.Wait that records success whatever the runner's Wait returned *)
JobWaitIgnoresError(job) ==
    IF WaitInvalid(job) THEN job
    ELSE [job EXCEPT !.r = RunnerWaited(job.kind, job.r), !.err = Nil,
                     !.status = StatusSuccessful, !.completedAt = now,
                     !.endedAt = now, !.purgeAt = now + SuccessRetention]

(* Job.Wait that gives a successful job the retention of a failed one *)
JobWaitShortRetention(job) ==
    IF WaitInvalid(job) THEN job
    ELSE LET e == RunnerWaitErr(job.kind, job.r)
             r2 == RunnerWaited(job.kind, job.r) IN
         [job EXCEPT !.r = r2, !.err = e,
                     !.status = IF e # Nil THEN StatusFailed ELSE StatusSuccessful,
                     !.completedAt = IF e # Nil THEN job.completedAt ELSE now,
                     !.endedAt = now, !.purgeAt = now + FailRetention]

(* Job.Wait that marks the job failed when it refuses to wait *)
JobWaitMarksFailed(job) ==
    IF WaitInvalid(job) THEN [job EXCEPT !.status = StatusFailed]
    ELSE LET e == RunnerWaitErr(job.kind, job.r)
             r2 == RunnerWaited(job.kind, job.r) IN
         IF e # Nil
         THEN [job EXCEPT !.r = r2, !.err = e, !.status = StatusFailed,
                          !.purgeAt = now + FailRetention, !.endedAt = now]
         ELSE [job EXCEPT !.r = r2, !.err = Nil, !.status = StatusSuccessful,
                          !.completedAt = now, !.endedAt = now,
                          !.purgeAt = now + SuccessRetention]

(* Job.Wait's effect on the job *)
JobWait(job) ==
    IF WaitInvalid(job) THEN job
    ELSE LET e == RunnerWaitErr(job.kind, job.r)
             r2 == RunnerWaited(job.kind, job.r) IN
         IF e # Nil
         THEN [job EXCEPT !.r = r2, !.err = e, !.status = StatusFailed,
                          !.purgeAt = now + FailRetention, !.endedAt = now]
         ELSE [job EXCEPT !.r = r2, !.err = Nil, !.status = StatusSuccessful,
                          !.completedAt = now, !.endedAt = now,
                          !.purgeAt = now + SuccessRetention]

JobPtrs == 1..Len(jobs)
InProgress(j) == jobs[j].r.state = "working"

----------------------------------------------------------------------------
(* No batch is being fixed and no stream is written to *)
NoTree == [exists |-> FALSE, files |-> {}, partial |-> {}, batch |-> <<>>]

(* no call of file.Copy is under way *)
NoCopy == [pc |-> "none", maxRetry |-> 0, n |-> 0, err |-> Nil, dest |-> "absent",
           tries |-> <<>>]

NoFixer ==
    /\ stat = [src |-> "absent", dst |-> "absent", tmpDst |-> "absent"]
    /\ srcFiles = {}
    /\ manifest = <<>>
    /\ keys = <<>>
    /\ fixer = [skipDirs |-> <<>>, batch |-> <<>>]
    /\ fpc = "none"
    /\ todo = {}
    /\ tmp = NoTree
    /\ dst = NoTree
    /\ fret = "none"
    /\ cp = NoCopy

(* no manifest is being rewritten *)
NoDoc == [tag |-> "", attrs |-> <<>>, children |-> <<>>]
NoBatch ==
    [err |-> "none",
     b |-> [Name |-> "", Awardee |-> "", AwardYear |-> "", Issues |-> <<>>,
            Reels |-> <<>>]]
(* the agent before any signal: the channel empty, isDone 0, the goroutine
   at its receive *)
NoSignal ==
    [c |-> <<>>, pc |-> "range", isDone |-> 0, quits |-> 0, got |-> <<>>,
     lost |-> 0, srvClosed |-> FALSE, exit |-> "none"]

NoXml ==
    /\ srcXml = NoDoc
    /\ xmlKeys = <<>>
    /\ batchXml = NoBatch
    /\ dstXml = NoDoc
    /\ reXml = NoBatch

NoStream ==
    /\ stream = [Logs |-> <<>>, lastWrite |-> 0, unprocessed |-> <<>>]
    /\ clock = 0
    /\ writes = 0
    /\ sio = [bytes |-> <<>>, n |-> 0, err |-> Nil, t |-> 0, k |-> 0, out |-> <<>>]

----------------------------------------------------------------------------
Idle == [pc |-> "idle", purgeTime |-> ZeroTime, j |-> NoJob, req |-> 0,
         list |-> <<>>]

Init ==
    /\ seq = 0
    /\ lookup = EmptyMap
    /\ queue = <<>>
    /\ m = [writer |-> NoOne, readers |-> {}]
    /\ jobs = <<>>
    /\ now = 1
    /\ ticks = 0
    /\ cancelled = FALSE
    /\ kpc = "select"
    /\ cur = NoJob
    /\ lastPurgeCheck = ZeroTime
    /\ sendq = <<>>
    /\ sess = [c \in Callers |-> Idle]
    /\ resp = [req |-> 0, reply |-> "none", job |-> NoJob]
    /\ api = [pc |-> "idle", op |-> "none", j |-> NoJob, pre |-> "none", ret |-> "none"]
    /\ sent = <<>>
    /\ issued = <<>>
    /\ sig = NoSignal
    /\ NoFixer
    /\ NoStream
    /\ NoXml

----------------------------------------------------------------------------
(* Queue.NewJob, one step per statement group; the mutex is held from
   NewJobLock to NewJobCreate (the deferred Unlock). *)

Allocating == {c \in Callers : sess[c].pc \in {"NewJob:locked", "NewJob:seq"}}

NewJobLock(c) ==
    /\ sess[c].pc = "idle"
    /\ Len(jobs) + Cardinality(Allocating) < MaxJobs
    /\ CanLock
    /\ m' = [m EXCEPT !.writer = c]
    /\ sess' = [sess EXCEPT ![c] = [Idle EXCEPT !.pc = "NewJob:locked",
                                               !.purgeTime = now + NewRetention]]
    /\ UNCHANGED <<seq, lookup, queue, jobs, now, ticks, cancelled, kpc, cur,
                   lastPurgeCheck, sendq, resp, api, sent, issued>>
    /\ UNCHANGED <<fvars, svars, xvars, pvars>>

NewJobSeq(c) ==
    /\ sess[c].pc = "NewJob:locked"
    /\ seq' = seq + 1
    /\ sess' = [sess EXCEPT ![c].pc = "NewJob:seq"]
    /\ UNCHANGED <<lookup, queue, m, jobs, now, ticks, cancelled, kpc, cur,
                   lastPurgeCheck, sendq, resp, api, sent, issued>>
    /\ UNCHANGED <<fvars, svars, xvars, pvars>>

(* NewJob, were it to stamp queuedAt itself *)
NewJobCreateStamped(c, op, kind) ==
    /\ sess[c].pc = "NewJob:seq"
    /\ jobs' = Append(jobs, [NewJobRecord(seq, kind, sess[c].purgeTime)
                                EXCEPT !.queuedAt = now])
    /\ lookup' = MapPut(lookup, seq, Len(jobs) + 1)
    /\ issued' = Append(issued, seq)
    /\ m' = [m EXCEPT !.writer = NoOne]
    /\ sess' = [sess EXCEPT ![c] = IF op = "QueueJob"
                                   THEN [Idle EXCEPT !.pc = "QueueJob:stamp",
                                                     !.j = Len(jobs) + 1]
                                   ELSE Idle]
    /\ UNCHANGED <<seq, queue, now, ticks, cancelled, kpc, cur,
                   lastPurgeCheck, sendq, resp, api, sent>>
    /\ UNCHANGED <<fvars, svars, xvars, pvars>>

(* The caller is either NewJob's own caller or QueueJob, which goes on to
   stamp and send the job it got. *)
NewJobCreate(c, op, kind) ==
    /\ sess[c].pc = "NewJob:seq"
    /\ jobs' = Append(jobs, NewJobRecord(seq, kind, sess[c].purgeTime))
    /\ lookup' = MapPut(lookup, seq, Len(jobs) + 1)
    /\ issued' = Append(issued, seq)
    /\ m' = [m EXCEPT !.writer = NoOne]
    /\ sess' = [sess EXCEPT ![c] = IF op = "QueueJob"
                                   THEN [Idle EXCEPT !.pc = "QueueJob:stamp",
                                                     !.j = Len(jobs) + 1]
                                   ELSE Idle]
    /\ UNCHANGED <<seq, queue, now, ticks, cancelled, kpc, cur,
                   lastPurgeCheck, sendq, resp, api, sent>>
    /\ UNCHANGED <<fvars, svars, xvars, pvars>>

(* Queue.QueueJob after NewJob returned: stamp queuedAt, then send *)
QueueJobStamp(c) ==
    /\ sess[c].pc = "QueueJob:stamp"
    /\ jobs' = [jobs EXCEPT ![sess[c].j].queuedAt = now]
    /\ sess' = [sess EXCEPT ![c].pc = "QueueJob:send"]
    /\ UNCHANGED <<seq, lookup, queue, m, now, ticks, cancelled, kpc, cur,
                   lastPurgeCheck, sendq, resp, api, sent, issued>>
    /\ UNCHANGED <<fvars, svars, xvars, pvars>>

(* A send that gives up on a full channel instead of parking *)
QueueJobSendOrDrop(c) ==
    /\ sess[c].pc = "QueueJob:send"
    /\ queue' = IF Len(queue) < QueueCap THEN Append(queue, sess[c].j) ELSE queue
    /\ sent' = Append(sent, sess[c].j)
    /\ sess' = [sess EXCEPT ![c] = Idle]
    /\ UNCHANGED <<seq, lookup, m, jobs, now, ticks, cancelled, kpc, cur,
                   lastPurgeCheck, sendq, resp, api, issued>>
    /\ UNCHANGED <<fvars, svars, xvars, pvars>>

(* q.queue <- j: with room in the buffer the send completes; on a full
   channel the sender parks until a receive makes room for its job. *)
QueueJobSend(c) ==
    /\ sess[c].pc = "QueueJob:send"
    /\ IF Len(queue) < QueueCap
       THEN /\ queue' = Append(queue, sess[c].j)
            /\ sent' = Append(sent, sess[c].j)
            /\ sess' = [sess EXCEPT ![c] = Idle]
            /\ sendq' = sendq
       ELSE /\ sess' = [sess EXCEPT ![c].pc = "QueueJob:parked"]
            /\ sendq' = Append(sendq, c)
            /\ UNCHANGED <<queue, sent>>
    /\ UNCHANGED <<seq, lookup, m, jobs, now, ticks, cancelled, kpc, cur,
                   lastPurgeCheck, resp, api, issued>>
    /\ UNCHANGED <<fvars, svars, xvars, pvars>>

----------------------------------------------------------------------------
(* session.getJob, which calls Queue.GetJob *)

GetJobInvalid(c) ==
    /\ sess[c].pc = "idle"
    /\ resp' = [req |-> 0, reply |-> "invalid", job |-> NoJob]
    /\ UNCHANGED <<seq, lookup, queue, m, jobs, now, ticks, cancelled, kpc, cur,
                   lastPurgeCheck, sendq, sess, api, sent, issued>>
    /\ UNCHANGED <<fvars, svars, xvars, pvars>>

(* getJob without the test for the sentinel's id: -1 goes to the lookup *)
GetJobNoOpByLookup(c) ==
    /\ sess[c].pc = "idle"
    /\ resp' = [req |-> NoOpID, job |-> NoJob,
                reply |-> IF NoOpID \in DOMAIN lookup THEN "found" ELSE "notfound"]
    /\ UNCHANGED <<seq, lookup, queue, m, jobs, now, ticks, cancelled, kpc, cur,
                   lastPurgeCheck, sendq, sess, api, sent, issued>>
    /\ UNCHANGED <<fvars, svars, xvars, pvars>>

GetJobNoOp(c) ==
    /\ sess[c].pc = "idle"
    /\ resp' = [req |-> NoOpJob.id, reply |-> "noop", job |-> NoJob]
    /\ UNCHANGED <<seq, lookup, queue, m, jobs, now, ticks, cancelled, kpc, cur,
                   lastPurgeCheck, sendq, sess, api, sent, issued>>
    /\ UNCHANGED <<fvars, svars, xvars, pvars>>

GetJobRLock(c, id) ==
    /\ sess[c].pc = "idle"
    /\ id # 0 /\ id # NoOpJob.id
    /\ CanRLock
    /\ m' = [m EXCEPT !.readers = @ \cup {c}]
    /\ sess' = [sess EXCEPT ![c] = [Idle EXCEPT !.req = id,
                                               !.pc = "GetJob:rlocked"]]
    /\ UNCHANGED <<seq, lookup, queue, jobs, now, ticks, cancelled, kpc, cur,
                   lastPurgeCheck, sendq, resp, api, sent, issued>>
    /\ UNCHANGED <<fvars, svars, xvars, pvars>>

GetJob(id) == IF id \in DOMAIN lookup THEN lookup[id] ELSE NoJob

GetJobRead(c) ==
    /\ sess[c].pc = "GetJob:rlocked"
    /\ m' = [m EXCEPT !.readers = @ \ {c}]
    /\ sess' = [sess EXCEPT ![c] = Idle]
    /\ resp' = [req |-> sess[c].req, job |-> GetJob(sess[c].req),
                reply |-> IF GetJob(sess[c].req) = NoJob THEN "notfound" ELSE "found"]
    /\ UNCHANGED <<seq, lookup, queue, jobs, now, ticks, cancelled, kpc, cur,
                   lastPurgeCheck, sendq, api, sent, issued>>
    /\ UNCHANGED <<fvars, svars, xvars, pvars>>

----------------------------------------------------------------------------
(* Queue.Wait: the consumer loop *)

(* A receive that discards the job instead of running it *)
WaitRecvDiscard ==
    /\ kpc = "select"
    /\ queue # <<>>
    /\ queue' = Tail(queue)
    /\ UNCHANGED <<seq, lookup, m, jobs, now, ticks, cancelled, kpc, cur,
                   lastPurgeCheck, sendq, sess, resp, api, sent, issued>>
    /\ UNCHANGED <<fvars, svars, xvars, pvars>>

(* j := <-q.queue; a sender parked on the full channel has its job moved
   into the freed slot by the same receive. *)
WaitRecv ==
    /\ kpc = "select"
    /\ queue # <<>>
    /\ cur' = Head(queue)
    /\ kpc' = "start"
    /\ IF sendq # <<>>
       THEN /\ queue' = Append(Tail(queue), sess[Head(sendq)].j)
            /\ sent' = Append(sent, sess[Head(sendq)].j)
            /\ sess' = [sess EXCEPT ![Head(sendq)] = Idle]
            /\ sendq' = Tail(sendq)
       ELSE /\ queue' = Tail(queue)
            /\ UNCHANGED <<sent, sess, sendq>>
    /\ UNCHANGED <<seq, lookup, m, jobs, now, ticks, cancelled,
                   lastPurgeCheck, resp, api, issued>>
    /\ UNCHANGED <<fvars, svars, xvars, pvars>>

WaitCtxDone ==
    /\ kpc = "select"
    /\ cancelled
    /\ kpc' = "returned"
    /\ UNCHANGED <<seq, lookup, queue, m, jobs, now, ticks, cancelled, cur,
                   lastPurgeCheck, sendq, sess, resp, api, sent, issued>>
    /\ UNCHANGED <<fvars, svars, xvars, pvars>>

WaitDefault ==
    /\ kpc = "select"
    /\ queue = <<>>
    /\ ~cancelled
    /\ kpc' = IF lastPurgeCheck = ZeroTime \/ now - lastPurgeCheck > Hour
              THEN "purge"
              ELSE "sleep"
    /\ UNCHANGED <<seq, lookup, queue, m, jobs, now, ticks, cancelled, cur,
                   lastPurgeCheck, sendq, sess, resp, api, sent, issued>>
    /\ UNCHANGED <<fvars, svars, xvars, pvars>>

PurgeLock ==
    /\ kpc = "purge"
    /\ CanLock
    /\ m' = [m EXCEPT !.writer = "Wait"]
    /\ kpc' = "purging"
    /\ UNCHANGED <<seq, lookup, queue, jobs, now, ticks, cancelled, cur,
                   lastPurgeCheck, sendq, sess, resp, api, sent, issued>>
    /\ UNCHANGED <<fvars, svars, xvars, pvars>>

(* A sweep that spares jobs that have not finished *)
ExpiredFinishedOnly ==
    {id \in DOMAIN lookup : /\ now > jobs[lookup[id]].purgeAt
                            /\ Terminal(jobs[lookup[id]].status)}

Expired == {id \in DOMAIN lookup : now > jobs[lookup[id]].purgeAt}

(* purgeOldJobs under the lock, then lastPurgeCheck = time.Now() *)
PurgeSweep ==
    /\ kpc = "purging"
    /\ lookup' = [id \in (DOMAIN lookup) \ Expired |-> lookup[id]]
    /\ m' = [m EXCEPT !.writer = NoOne]
    /\ lastPurgeCheck' = now
    /\ kpc' = "sleep"
    /\ UNCHANGED <<seq, queue, jobs, now, ticks, cancelled, cur,
                   sendq, sess, resp, api, sent, issued>>
    /\ UNCHANGED <<fvars, svars, xvars, pvars>>

WaitSleep ==
    /\ kpc = "sleep"
    /\ kpc' = "select"
    /\ UNCHANGED <<seq, lookup, queue, m, jobs, now, ticks, cancelled, cur,
                   lastPurgeCheck, sendq, sess, resp, api, sent, issued>>
    /\ UNCHANGED <<fvars, svars, xvars, pvars>>

(* j.Run(ctx): Start, then Wait if Start returned nil *)
RunStart ==
    /\ kpc = "start"
    /\ \E ok \in StartOutcomes(jobs[cur].kind) :
          /\ jobs' = [jobs EXCEPT ![cur] = JobStart(jobs[cur], ok)]
          /\ kpc' = IF ok THEN "wait" ELSE "select"
          /\ cur' = IF ok THEN cur ELSE NoJob
    /\ UNCHANGED <<seq, lookup, queue, m, now, ticks, cancelled,
                   lastPurgeCheck, sendq, sess, resp, api, sent, issued>>
    /\ UNCHANGED <<fvars, svars, xvars, pvars>>

RunWait ==
    /\ kpc = "wait"
    /\ WaitReady(jobs[cur])
    /\ jobs' = [jobs EXCEPT ![cur] = JobWait(jobs[cur])]
    /\ kpc' = "select"
    /\ cur' = NoJob
    /\ UNCHANGED <<seq, lookup, queue, m, now, ticks, cancelled,
                   lastPurgeCheck, sendq, sess, resp, api, sent, issued>>
    /\ UNCHANGED <<fvars, svars, xvars, pvars>>

----------------------------------------------------------------------------
(* The runners' own tasks: the external process, or the goroutine that
   loadTitleRunner.Start and batchPatchRunner.Start spawn. *)

RunnerBegin(j) ==
    /\ j \in JobPtrs
    /\ jobs[j].r.state = "spawned"
    /\ jobs' = [jobs EXCEPT ![j].r = RunnerBegun(jobs[j].kind, jobs[j].r)]
    /\ UNCHANGED <<seq, lookup, queue, m, now, ticks, cancelled, kpc, cur,
                   lastPurgeCheck, sendq, sess, resp, api, sent, issued>>
    /\ UNCHANGED <<fvars, svars, xvars, pvars>>

RunnerEnd(j) ==
    /\ j \in JobPtrs
    /\ jobs[j].r.state = "working"
    /\ \E ok \in WorkOutcomes(jobs[j].kind) :
          jobs' = [jobs EXCEPT ![j].r = RunnerEnded(jobs[j].kind, jobs[j].r, ok)]
    /\ UNCHANGED <<seq, lookup, queue, m, now, ticks, cancelled, kpc, cur,
                   lastPurgeCheck, sendq, sess, resp, api, sent, issued>>
    /\ UNCHANGED <<fvars, svars, xvars, pvars>>

----------------------------------------------------------------------------
(* The environment: the clock and the cancellation of ctx *)

(* Hours pass while the consumer sleeps or waits for a job, and while every
   caller is between requests or parked; a handler's own statements take no
   time on this scale.  The clock advances to the end of the shortest
   retention window, or just past the end of each window (all of them more
   than the purge cadence). *)
Tick ==
    /\ ticks < MaxTicks
    /\ kpc \in {"unstarted", "sleep", "wait", "returned"}
    /\ \A c \in Callers : sess[c].pc \in {"idle", "QueueJob:parked"}
    /\ \E d \in {FailRetention, FailRetention + Hour, SuccessRetention + Hour,
                 NewRetention + Hour} :
          now' = now + d
    /\ ticks' = ticks + 1
    /\ UNCHANGED <<seq, lookup, queue, m, jobs, cancelled, kpc, cur,
                   lastPurgeCheck, sendq, sess, resp, api, sent, issued>>
    /\ UNCHANGED <<fvars, svars, xvars, pvars>>

Cancel ==
    /\ ~cancelled
    /\ cancelled' = TRUE
    /\ UNCHANGED <<seq, lookup, queue, m, jobs, now, ticks, kpc, cur,
                   lastPurgeCheck, sendq, sess, resp, api, sent, issued>>
    /\ UNCHANGED <<fvars, svars, xvars, pvars>>

----------------------------------------------------------------------------
(* A caller that drives a job itself through Job.Start, Job.Wait and Job.Run,
   one call at a time, and does not call Start while the runner's earlier
   work is still in flight. *)

CanCall(j) ==
    /\ api.pc = "idle"
    /\ j \in JobPtrs

Settled(j) == jobs[j].r.state \notin {"spawned", "working"}

ApiStart(j) ==
    /\ CanCall(j)
    /\ Settled(j)
    /\ \E ok \in StartOutcomes(jobs[j].kind) :
          /\ jobs' = [jobs EXCEPT ![j] = JobStart(jobs[j], ok)]
          /\ api' = [pc |-> "idle", op |-> "Start", j |-> j,
                     pre |-> jobs[j].status, ret |-> IF ok THEN Nil ELSE Err]
    /\ UNCHANGED <<seq, lookup, queue, m, now, ticks, cancelled, kpc, cur,
                   lastPurgeCheck, sendq, sess, resp, sent, issued>>
    /\ UNCHANGED <<fvars, svars, xvars, pvars>>

ApiWait(j) ==
    /\ CanCall(j)
    /\ WaitReady(jobs[j])
    /\ jobs' = [jobs EXCEPT ![j] = JobWait(jobs[j])]
    /\ api' = [pc |-> "idle", op |-> "Wait", j |-> j,
               pre |-> jobs[j].status, ret |-> WaitResult(jobs[j])]
    /\ UNCHANGED <<seq, lookup, queue, m, now, ticks, cancelled, kpc, cur,
                   lastPurgeCheck, sendq, sess, resp, sent, issued>>
    /\ UNCHANGED <<fvars, svars, xvars, pvars>>

ApiRunStart(j) ==
    /\ CanCall(j)
    /\ Settled(j)
    /\ \E ok \in StartOutcomes(jobs[j].kind) :
          /\ jobs' = [jobs EXCEPT ![j] = JobStart(jobs[j], ok)]
          /\ api' = [pc |-> IF ok THEN "Run:wait" ELSE "idle", op |-> "Run",
                     j |-> j, pre |-> jobs[j].status,
                     ret |-> IF ok THEN "none" ELSE Err]
    /\ UNCHANGED <<seq, lookup, queue, m, now, ticks, cancelled, kpc, cur,
                   lastPurgeCheck, sendq, sess, resp, sent, issued>>
    /\ UNCHANGED <<fvars, svars, xvars, pvars>>

ApiRunWait ==
    /\ api.pc = "Run:wait"
    /\ WaitReady(jobs[api.j])
    /\ jobs' = [jobs EXCEPT ![api.j] = JobWait(jobs[api.j])]
    /\ api' = [api EXCEPT !.pc = "idle", !.ret = WaitResult(jobs[api.j])]
    /\ UNCHANGED <<seq, lookup, queue, m, now, ticks, cancelled, kpc, cur,
                   lastPurgeCheck, sendq, sess, resp, sent, issued>>
    /\ UNCHANGED <<fvars, svars, xvars, pvars>>

----------------------------------------------------------------------------
(* The queue at work: callers create and queue jobs of every kind, the
   consumer loop runs them, and ctx may be cancelled. *)

Next ==
    \/ \E c \in Callers : NewJobLock(c)
    \/ \E c \in Callers : NewJobSeq(c)
    \/ \E c \in Callers, op \in {"NewJob", "QueueJob"}, kind \in Kinds :
          NewJobCreate(c, op, kind)
    \/ \E c \in Callers : QueueJobStamp(c)
    \/ \E c \in Callers : QueueJobSend(c)
    \/ WaitRecv
    \/ WaitCtxDone
    \/ WaitDefault
    \/ PurgeLock
    \/ PurgeSweep
    \/ WaitSleep
    \/ RunStart
    \/ RunWait
    \/ \E j \in 1..MaxJobs : RunnerBegin(j)
    \/ \E j \in 1..MaxJobs : RunnerEnd(j)
    \/ Cancel

Spec == Init /\ [][Next]_vars

(* The same program under fair scheduling: the consumer goroutine, the
   runners' goroutines and processes, and a caller inside NewJob (which holds
   the mutex the purge needs) each take their next step when they can; the
   runner's work ends because RunnerEnd is its only step. Nothing obliges a
   caller to begin a request or ctx to be cancelled. *)
Fairness ==
    /\ WF_vars(WaitRecv)
    /\ WF_vars(WaitDefault)
    /\ WF_vars(PurgeLock)
    /\ WF_vars(PurgeSweep)
    /\ WF_vars(WaitSleep)
    /\ WF_vars(RunStart)
    /\ WF_vars(RunWait)
    /\ \A j \in 1..MaxJobs : WF_vars(RunnerBegin(j)) /\ WF_vars(RunnerEnd(j))
    /\ \A c \in Callers : WF_vars(NewJobSeq(c))
    /\ \A c \in Callers : WF_vars(\E op \in {"NewJob", "QueueJob"}, kind \in Kinds :
                                     NewJobCreate(c, op, kind))

LiveSpec == Init /\ [][Next]_vars /\ Fairness

----------------------------------------------------------------------------
(* Retention: external-process jobs are queued and run while the clock
   advances and the consumer sweeps. *)

ClockNext ==
    \/ \E c \in Callers : NewJobLock(c)
    \/ \E c \in Callers : NewJobSeq(c)
    \/ \E c \in Callers, op \in {"NewJob", "QueueJob"} : NewJobCreate(c, op, "oni")
    \/ \E c \in Callers : QueueJobStamp(c)
    \/ \E c \in Callers : QueueJobSend(c)
    \/ WaitRecv
    \/ WaitDefault
    \/ PurgeLock
    \/ PurgeSweep
    \/ WaitSleep
    \/ RunStart
    \/ RunWait
    \/ \E j \in 1..MaxJobs : RunnerEnd(j)
    \/ Tick

ClockSpec == Init /\ [][ClockNext]_vars

(* Lookups: sessions create jobs and ask for jobs while the clock advances
   and the consumer sweeps. *)

LookupNext ==
    \/ \E c \in Callers : NewJobLock(c)
    \/ \E c \in Callers : NewJobSeq(c)
    \/ \E c \in Callers : NewJobCreate(c, "NewJob", "oni")
    \/ \E c \in Callers : GetJobInvalid(c)
    \/ \E c \in Callers : GetJobNoOp(c)
    \/ \E c \in Callers, id \in {NoOpID, 0} \cup (1..MaxJobs) : GetJobRLock(c, id)
    \/ \E c \in Callers : GetJobRead(c)
    \/ WaitDefault
    \/ PurgeLock
    \/ PurgeSweep
    \/ WaitSleep
    \/ Tick

LookupSpec == Init /\ [][LookupNext]_vars

(* The Job API on its own, as the package's tests use it: no consumer loop
   is started, jobs are created and the caller runs them itself. *)

JobInit ==
    /\ seq = 0
    /\ lookup = EmptyMap
    /\ queue = <<>>
    /\ m = [writer |-> NoOne, readers |-> {}]
    /\ jobs = <<>>
    /\ now = 1
    /\ ticks = 0
    /\ cancelled = FALSE
    /\ kpc = "unstarted"
    /\ cur = NoJob
    /\ lastPurgeCheck = ZeroTime
    /\ sendq = <<>>
    /\ sess = [c \in Callers |-> Idle]
    /\ resp = [req |-> 0, reply |-> "none", job |-> NoJob]
    /\ api = [pc |-> "idle", op |-> "none", j |-> NoJob, pre |-> "none", ret |-> "none"]
    /\ sent = <<>>
    /\ issued = <<>>
    /\ sig = NoSignal
    /\ NoFixer
    /\ NoStream
    /\ NoXml

JobNext ==
    \/ \E c \in Callers : Len(jobs) < MaxApiJobs /\ NewJobLock(c)
    \/ \E c \in Callers : NewJobSeq(c)
    \/ \E c \in Callers, kind \in Kinds : NewJobCreate(c, "NewJob", kind)
    \/ \E j \in 1..MaxJobs : ApiStart(j)
    \/ \E j \in 1..MaxJobs : ApiWait(j)
    \/ \E j \in 1..MaxJobs : ApiRunStart(j)
    \/ ApiRunWait
    \/ \E j \in 1..MaxJobs : RunnerBegin(j)
    \/ \E j \in 1..MaxJobs : RunnerEnd(j)
    \/ Cancel

JobSpec == JobInit /\ [][JobNext]_vars

----------------------------------------------------------------------------
(* Properties *)

Sent == {sent[i] : i \in 1..Len(sent)}

(* C1: at most one job has work in progress at any time. *)
C1_AtMostOneInProgress ==
    Cardinality({j \in JobPtrs : InProgress(j)}) <= 1

(* C2: of two jobs sent into the channel, the later one is not started until
   the earlier one is terminal and its work has finished. *)
C2_FifoNoOverlap ==
    \A a, b \in 1..Len(sent) :
        (a < b /\ jobs[sent[b]].status # StatusPending)
            => (/\ Terminal(jobs[sent[a]].status)
                /\ jobs[sent[a]].r.state \in {"none", "done"})

(* C3: every id issued is at least 1 and greater than every id issued
   before it, so no id is issued twice, purged or not. *)
C3_IdsIncreasing ==
    \A a \in 1..Len(issued) :
        /\ issued[a] >= 1
        /\ \A b \in 1..Len(issued) : a < b => issued[a] < issued[b]

(* An id was issued after the job holding an earlier id was purged, and a
   lookup has been answered in between. *)
C3_Witness ==
    /\ Len(issued) >= 2
    /\ issued[1] \notin DOMAIN lookup
    /\ issued[2] \in DOMAIN lookup
    /\ resp.reply = "notfound"

(* C4: once a job's status is terminal, no further Start, Wait or Run call
   on that job changes its status. *)
C4_TerminalIsFinal ==
    [][\A j \in JobPtrs :
          Terminal(jobs[j].status) => jobs'[j].status = jobs[j].status]_vars

(* C5: Wait on a job that has never been started returns a non-nil error and
   leaves the job as it was: status pending, and err, the timestamps and
   purgeAt unchanged. *)
C5_WaitBeforeStart ==
    [][\A j \in JobPtrs :
          (ApiWait(j) /\ jobs[j].status = StatusPending)
              => (api'.ret # Nil /\ jobs'[j] = jobs[j])]_vars

C5_Witness ==
    /\ api.op = "Wait"
    /\ api.pre = StatusPending
    /\ api.ret = Err
    /\ jobs[api.j].status = StatusPending
    /\ jobs[api.j].err = Nil
    /\ jobs[api.j].startedAt = ZeroTime

(* C6: when Run has returned on a job that was pending: if the runner's Start
   failed the status is couldn't start and the error is non-nil; if it
   started and the runner's Wait reported an error the status is failed and
   the error is non-nil; if both returned nil the status is successful and
   the error is nil. *)
C6_RunOutcome ==
    (api.op = "Run" /\ api.pc = "idle" /\ api.pre = StatusPending)
        => LET job == jobs[api.j] IN
           /\ job.r.startRet # Nil
                 => (job.status = StatusFailStart /\ job.err # Nil /\ api.ret # Nil)
           /\ (job.r.startRet = Nil /\ job.r.waitRet # Nil)
                 => (job.status = StatusFailed /\ job.err # Nil /\ api.ret # Nil)
           /\ (job.r.startRet = Nil /\ job.r.waitRet = Nil)
                 => (job.status = StatusSuccessful /\ job.err = Nil /\ api.ret = Nil)

C6_Witness ==
    /\ api.op = "Run"
    /\ api.pc = "idle"
    /\ api.pre = StatusPending
    /\ jobs[api.j].r.startRet = Nil
    /\ jobs[api.j].r.waitRet = Err
    /\ jobs[api.j].status = StatusFailed

(* C7: the no-op job has id -1 and status successful whatever the queue
   holds; no queue job has that id, and a request for id -1 is answered with
   the sentinel, never from the lookup. *)
C7_NoOpSentinel ==
    /\ NoOpJob.id = -1
    /\ NoOpJob.status = StatusSuccessful
    /\ resp.req = NoOpJob.id => resp.reply = "noop"
    /\ NoOpJob.id \notin DOMAIN lookup
    /\ \A j \in JobPtrs : jobs[j].id # NoOpJob.id

C7_Witness ==
    /\ resp.req = NoOpJob.id
    /\ resp.reply = "noop"
    /\ Len(issued) = MaxJobs
    /\ issued[1] \notin DOMAIN lookup
    /\ issued[2] \in DOMAIN lookup

(* C8: the channel never holds more than its capacity; a sender is parked
   only on a full channel and leaves only in a step where the consumer
   receives, which puts its job into the channel; and every job whose send
   has returned is in the channel, being run, or terminal. *)
C8_PushNeverDrops ==
    /\ [](/\ Len(queue) <= QueueCap
          /\ sendq # <<>> => Len(queue) = QueueCap
          /\ \A j \in Sent :
                \/ \E i \in 1..Len(queue) : queue[i] = j
                \/ cur = j
                \/ Terminal(jobs[j].status))
    /\ [][\A c \in Callers :
            (sess[c].pc = "QueueJob:parked" /\ sess'[c].pc # "QueueJob:parked")
                => /\ cur' = Head(queue)
                   /\ \E i \in 1..Len(queue') : queue'[i] = sess[c].j
                   /\ \E i \in 1..Len(sent') : sent'[i] = sess[c].j]_vars

C8_Witness ==
    /\ sendq = <<>>
    /\ Len(sent) = MaxJobs
    /\ Len(queue) = QueueCap
    /\ cur = sent[1]
    /\ queue[1] = sent[2]
    /\ kpc = "start"

(* C9: every job that has been sent into the channel eventually has a
   terminal status, unless ctx is cancelled. *)
C9_PushedJobsFinish ==
    \A j \in 1..MaxJobs :
        (j \in Sent) ~> (cancelled \/ (j \in JobPtrs /\ Terminal(jobs[j].status)))

C9_Witness ==
    /\ ~cancelled
    /\ Len(sent) = MaxJobs
    /\ \A j \in Sent : Terminal(jobs[j].status)
    /\ \E j \in Sent : jobs[j].status = StatusFailed

(* C10: a job that became successful at time t is found by GetJob as long as
   now <= t + 7 days, and one that became failed or couldn't start at time t
   as long as now <= t + 24 hours; and a sweep removes an entry only when
   now is after that job's purgeAt. *)
C10_Retention ==
    /\ [](\A j \in JobPtrs :
            /\ (jobs[j].status = StatusSuccessful
                    /\ now <= jobs[j].endedAt + SuccessRetention)
                  => GetJob(jobs[j].id) = j
            /\ (jobs[j].status \in {StatusFailed, StatusFailStart}
                    /\ now <= jobs[j].endedAt + FailRetention)
                  => GetJob(jobs[j].id) = j)
    /\ [][\A id \in DOMAIN lookup :
            id \notin DOMAIN lookup' => now > jobs[lookup[id]].purgeAt]_vars

C10_Witness ==
    /\ lastPurgeCheck = now
    /\ \E a, b \in JobPtrs :
          /\ jobs[a].status \in {StatusFailed, StatusFailStart}
          /\ GetJob(jobs[a].id) = NoJob
          /\ jobs[b].status = StatusSuccessful
          /\ now > jobs[b].endedAt + FailRetention
          /\ now <= jobs[b].endedAt + SuccessRetention
          /\ GetJob(jobs[b].id) = b

(* C11 as stated: no step removes from lookup a job whose status is pending
   or started. *)
C11_PurgeSparesUnfinished ==
    [][\A id \in DOMAIN lookup :
          id \notin DOMAIN lookup'
              => jobs[lookup[id]].status \notin {StatusPending, StatusStarted}]_vars

(* C11, amended: a job leaves lookup exactly in a sweep made when now is
   after its purgeAt, whatever its status; a pending job still has the
   purgeAt given at creation and is found by GetJob as long as now is not
   after it. *)
C11_PurgeByDeadline ==
    /\ [][\A id \in DOMAIN lookup :
            id \notin DOMAIN lookup'
                <=> (kpc = "purging" /\ kpc' = "sleep"
                        /\ now > jobs[lookup[id]].purgeAt)]_vars
    /\ [](\A j \in JobPtrs :
            (jobs[j].status = StatusPending /\ now <= jobs[j].purgeAt)
                => GetJob(jobs[j].id) = j)

C11_Witness ==
    /\ lastPurgeCheck = now
    /\ \E j \in JobPtrs :
          /\ jobs[j].status = StatusPending
          /\ now > jobs[j].purgeAt
          /\ GetJob(jobs[j].id) = NoJob

----------------------------------------------------------------------------
(* Strings.  A Go string is modelled as the sequence of its characters, so
   that lower-casing, suffix tests, extensions, splitting and substring
   search are computed as the library computes them. *)
UpperCase == <<"A", "B", "C", "D", "E", "F", "G", "H", "I", "J", "K", "L", "M",
               "N", "O", "P", "Q", "R", "S", "T", "U", "V", "W", "X", "Y", "Z">>
(* strings.ToLower *)
ToLower(str) ==
    LET LowerCase == <<"a", "b", "c", "d", "e", "f", "g", "h", "i", "j", "k", "l",
                       "m", "n", "o", "p", "q", "r", "s", "t", "u", "v", "w", "x",
                       "y", "z">>
        ToLowerChar(c) ==
            IF \E i \in DOMAIN UpperCase : UpperCase[i] = c
            THEN LowerCase[CHOOSE i \in DOMAIN UpperCase : UpperCase[i] = c]
            ELSE c
    IN  [i \in 1..Len(str) |-> ToLowerChar(str[i])]

(* strings.LastIndex for a one-character separator, 1-based; 0 when absent *)
LastIndex(str, c) ==
    IF \E i \in 1..Len(str) : str[i] = c
    THEN CHOOSE i \in 1..Len(str) :
            str[i] = c /\ \A k \in (i + 1)..Len(str) : str[k] # c
    ELSE 0

(* path.Split and filepath.Split: everything up to and including the last
   slash, and what follows it *)
PathSplit(pth) ==
    [dir  |-> SubSeq(pth, 1, LastIndex(pth, "/")),
     file |-> SubSeq(pth, LastIndex(pth, "/") + 1, Len(pth))]

(* filepath.Ext: the suffix that starts at the last dot of the last element *)
Ext(pth) ==
    IF LastIndex(pth, ".") > LastIndex(pth, "/")
    THEN SubSeq(pth, LastIndex(pth, "."), Len(pth))
    ELSE <<>>

(* strings.Contains *)
Contains(str, substr) ==
    \E i \in 0..(Len(str) - Len(substr)) :
        SubSeq(str, i + 1, i + Len(substr)) = substr

(* strings.Replace(key, old, "", -1) for a one-character old *)
RemoveChar(str, c) == SelectSeq(str, LAMBDA x : x # c)

keyfix(key) == RemoveChar(RemoveChar(key, "-"), "_")

BatchXmlName == <<"b", "a", "t", "c", "h", ".", "x", "m", "l">>
ValidatedSuffix == <<"_", "1", ".", "x", "m", "l">>
TifExt == <<".", "t", "i", "f">>
TiffExt == <<".", "t", "i", "f", "f">>

----------------------------------------------------------------------------
(* The batch manifest: ParseBatch and what MarshalXML writes *)
IssueXML(lccn, issueDate, edition, pth) ==
    [LCCN |-> lccn, IssueDate |-> issueDate, Edition |-> edition,
     Path |-> pth, Skip |-> FALSE]

IssueKey(issue) == keyfix(issue.LCCN \o <<"/">> \o issue.IssueDate \o issue.Edition)

(* keyToDir[key]: the map is filled in manifest order, so a later issue with
   the same key replaces an earlier one; 0 stands for the nil entry *)
KeyToDir(issues, key) ==
    IF \E i \in 1..Len(issues) : IssueKey(issues[i]) = key
    THEN CHOOSE i \in 1..Len(issues) :
            /\ IssueKey(issues[i]) = key
            /\ \A k \in (i + 1)..Len(issues) : IssueKey(issues[k]) # key
    ELSE 0

(* the loop over skipKeys: the first key without an entry ends the parse *)
RECURSIVE MarkSkips(_, _)
MarkSkips(issues, skipKeys) ==
    IF skipKeys = <<>> THEN [err |-> Nil, b |-> issues]
    ELSE IF KeyToDir(issues, keyfix(Head(skipKeys))) = 0
         THEN [err |-> Err, b |-> <<>>]
    ELSE MarkSkips([issues EXCEPT ![KeyToDir(issues, keyfix(Head(skipKeys)))].Skip = TRUE],
                   Tail(skipKeys))

(* ParseBatch, were it to pass over the skip keys that name no issue *)
ParseBatchLenient(readable, issues, skipKeys) ==
    IF ~readable THEN [err |-> Err, b |-> <<>>]
    ELSE IF Len(issues) = 0 THEN [err |-> Err, b |-> <<>>]
    ELSE MarkSkips(issues,
                   SelectSeq(skipKeys, LAMBDA k : KeyToDir(issues, keyfix(k)) # 0))

(* readable: whether the manifest file can be read and is well-formed *)
ParseBatch(readable, issues, skipKeys) ==
    IF ~readable THEN [err |-> Err, b |-> <<>>]
    ELSE IF Len(issues) = 0 THEN [err |-> Err, b |-> <<>>]
    ELSE MarkSkips(issues, skipKeys)

(* MarshalXML, were it to emit every issue *)
MarshalXMLAll(batch) == batch

(* BatchXML.MarshalXML: the issues not marked Skip, in order *)
MarshalXML(batch) == SelectSeq(batch, LAMBDA i : ~i.Skip)

----------------------------------------------------------------------------
(* The Fixer.  Paths are relative to Fixer.src, as the walk over the base-path
   filesystem sees them; the same path under Fixer.tmpDst or Fixer.dst is the
   mirrored place.  A tree is absent (exists = FALSE) or holds complete files,
   files whose copy broke off (partial), and the issues of its manifest. *)
MaxFiles == 2
MaxKeys == 2

DataDir == <<"/", "d", "a", "t", "a", "/">>
ManifestPath == DataDir \o BatchXmlName
DirA == <<"s", "/", "1", "/">>
DirB == <<"s", "/", "2", "/">>

(* files a source batch may hold besides its manifest, in the order the walk
   visits them (directories and names in byte order); the last is in a
   directory, xs/1/, whose name ends as DirA's does *)
Tree ==
    << DataDir \o DirA \o <<"i", ".", "x", "m", "l">>,
       DataDir \o DirA \o <<"i", "_", "1", ".", "x", "m", "l">>,
       DataDir \o DirA \o <<"p", ".", "j", "p", "2">>,
       DataDir \o DirA \o <<"p", ".", "t", "i", "f">>,
       DataDir \o DirB \o <<"B", "a", "t", "c", "h", ".", "x", "m", "l">>,
       DataDir \o DirB \o <<"P", ".", "T", "I", "F", "F">>,
       DataDir \o DirB \o <<"_", "1", ".", "x", "m", "l">>,
       DataDir \o DirB \o <<"i", ".", "x", "m", "l">>,
       DataDir \o <<"x">> \o DirA \o <<"p", ".", "j", "p", "2">> >>

(* issues a manifest may list: one whose path is written plainly and one
   whose path starts with "./" *)
IssueA == IssueXML(<<"s">>, <<"0", "-", "1">>, <<"1">>,
                   DirA \o <<"i", ".", "x", "m", "l">>)
IssueB == IssueXML(<<"s">>, <<"0", "-", "2">>, <<"1">>,
                   <<".", "/">> \o DirB \o <<"i", ".", "x", "m", "l">>)

(* keys a caller may pass: IssueA's with a dash in its date, IssueB's
   without, and one that names no issue *)
KeyCands == {<<"s", "/", "0", "-", "1", "1">>, <<"s", "/", "0", "2", "1">>,
             <<"s", "/", "0", "9", "1">>}

RECURSIVE SeqsUpTo(_, _)
SeqsUpTo(S, n) ==
    IF n = 0 THEN {<<>>}
    ELSE SeqsUpTo(S, n - 1)
            \cup {Append(q, x) : q \in SeqsUpTo(S, n - 1), x \in S}

(* the walk order of a source tree: the manifest first, then Tree's order *)
WalkOrder(files) ==
    (IF ManifestPath \in files THEN <<ManifestPath>> ELSE <<>>)
        \o SelectSeq(Tree, LAMBDA f : f \in files)

(* the state after NewFixer accepted a source directory: neither the
   destination nor its staging sibling exists *)
FixInit ==
    /\ stat = [src |-> "dir", dst |-> "absent", tmpDst |-> "absent"]
    /\ \E S \in SUBSET {Tree[i] : i \in DOMAIN Tree}, hasManifest \in BOOLEAN :
          /\ Cardinality(S) <= MaxFiles
          /\ srcFiles = S \cup (IF hasManifest THEN {ManifestPath} ELSE {})
    /\ manifest \in {<<>>, <<IssueA>>, <<IssueB>>, <<IssueA, IssueB>>, <<IssueB, IssueA>>}
    /\ keys \in SeqsUpTo(KeyCands, MaxKeys)
    /\ fixer = [skipDirs |-> <<>>, batch |-> <<>>]
    /\ fpc = "ready"
    /\ todo = <<>>
    /\ tmp = NoTree
    /\ dst = NoTree
    /\ fret = "none"
    /\ cp = NoCopy

(* readSourceBatch: the directories of the issues marked Skip *)
SkipDirs(batch) ==
    LET skipped == SelectSeq(batch, LAMBDA i : i.Skip)
    IN  [k \in 1..Len(skipped) |-> PathSplit(skipped[k].Path).dir]

(* readSourceBatch, were it to go on with the keys that do name an issue *)
ReadSourceBatchKeepsGoing ==
    /\ fpc = "ready"
    /\ LET parsed == ParseBatchLenient(ManifestPath \in srcFiles, manifest, keys) IN
          IF parsed.err # Nil
          THEN /\ fpc' = "returned"
               /\ fret' = "read"
               /\ UNCHANGED <<fixer, todo>>
          ELSE /\ fixer' = [skipDirs |-> SkipDirs(parsed.b), batch |-> parsed.b]
               /\ todo' = WalkOrder(srcFiles)
               /\ fpc' = "walk"
               /\ UNCHANGED fret
    /\ UNCHANGED <<stat, srcFiles, manifest, keys, tmp, dst>>
    /\ UNCHANGED <<cp, qvars, svars, xvars, pvars>>

(* RemoveIssues up to the start of the walk *)
ReadSourceBatch ==
    /\ fpc = "ready"
    /\ LET parsed == ParseBatch(ManifestPath \in srcFiles, manifest, keys) IN
          IF parsed.err # Nil
          THEN /\ fpc' = "returned"
               /\ fret' = "read"
               /\ UNCHANGED <<fixer, todo>>
          ELSE /\ fixer' = [skipDirs |-> SkipDirs(parsed.b), batch |-> parsed.b]
               /\ todo' = WalkOrder(srcFiles)
               /\ fpc' = "walk"
               /\ UNCHANGED fret
    /\ UNCHANGED <<stat, srcFiles, manifest, keys, tmp, dst>>
    /\ UNCHANGED <<cp, qvars, svars, xvars, pvars>>

(* walkFunc's filter: TRUE when the file at pth is not to be copied *)
WalkSkips(pth, skipDirs) ==
    LET dir == PathSplit(pth).dir
        filename == ToLower(PathSplit(pth).file)
        l == Len(filename)
    IN  \/ filename = BatchXmlName
        \/ l > 6 /\ SubSeq(filename, l - 5, l) = ValidatedSuffix
        \/ Ext(filename) = TifExt
        \/ Ext(filename) = TiffExt
        \/ \E i \in 1..Len(skipDirs) : Contains(dir, skipDirs[i])

(* the walk hands walkFunc an error (a directory or file it could not read) *)
WalkError ==
    /\ fpc = "walk"
    /\ fpc' = "rollback"
    /\ fret' = "walk"
    /\ UNCHANGED <<stat, srcFiles, manifest, keys, fixer, todo, tmp, dst>>
    /\ UNCHANGED <<cp, qvars, svars, xvars, pvars>>

(* walkFunc, were it to move each file into the staging tree *)
WalkFileMoves(mkdirOk, copied, leftover) ==
    /\ fpc = "walk"
    /\ todo # <<>>
    /\ LET pth == Head(todo) IN
          IF WalkSkips(pth, fixer.skipDirs)
          THEN /\ todo' = Tail(todo)
               /\ UNCHANGED <<srcFiles, tmp, fpc, fret>>
          ELSE IF ~mkdirOk \/ ~copied
          THEN /\ fpc' = "rollback"
               /\ fret' = "walk"
               /\ UNCHANGED <<srcFiles, tmp, todo>>
          ELSE /\ tmp' = [tmp EXCEPT !.exists = TRUE, !.files = @ \cup {pth}]
               /\ srcFiles' = srcFiles \ {pth}
               /\ todo' = Tail(todo)
               /\ UNCHANGED <<fpc, fret>>
    /\ UNCHANGED <<stat, manifest, keys, fixer, dst>>
    /\ UNCHANGED <<cp, qvars, svars, xvars, pvars>>

(* walkFunc on the next file: filter, MkdirAll, then file.Copy with its five
   attempts; copied tells whether one attempt succeeded, and a copy that
   failed may leave the file it had begun to write *)
WalkFile(mkdirOk, copied, leftover) ==
    /\ fpc = "walk"
    /\ todo # <<>>
    /\ LET pth == Head(todo) IN
          IF WalkSkips(pth, fixer.skipDirs)
          THEN /\ todo' = Tail(todo)
               /\ UNCHANGED <<tmp, fpc, fret>>
          ELSE IF ~mkdirOk
          THEN /\ fpc' = "rollback"
               /\ fret' = "walk"
               /\ UNCHANGED <<tmp, todo>>
          ELSE IF ~copied
          THEN /\ tmp' = [tmp EXCEPT !.exists = TRUE,
                                     !.partial = IF leftover THEN @ \cup {pth} ELSE @]
               /\ fpc' = "rollback"
               /\ fret' = "walk"
               /\ UNCHANGED todo
          ELSE /\ tmp' = [tmp EXCEPT !.exists = TRUE, !.files = @ \cup {pth}]
               /\ todo' = Tail(todo)
               /\ UNCHANGED <<fpc, fret>>
    /\ UNCHANGED <<stat, srcFiles, manifest, keys, fixer, dst>>
    /\ UNCHANGED <<cp, qvars, svars, xvars, pvars>>

(* the walk has returned nil; WriteBatchXML into the staging tree *)
WriteManifest(mkdirOk, written) ==
    /\ fpc = "walk"
    /\ todo = <<>>
    /\ IF ~mkdirOk
       THEN /\ fpc' = "rollback"
            /\ fret' = "write"
            /\ UNCHANGED tmp
       ELSE IF ~written
       THEN /\ tmp' = [tmp EXCEPT !.exists = TRUE]
            /\ fpc' = "rollback"
            /\ fret' = "write"
       ELSE /\ tmp' = [tmp EXCEPT !.exists = TRUE,
                                  !.files = @ \cup {ManifestPath},
                                  !.batch = MarshalXML(fixer.batch)]
            /\ fpc' = "publish"
            /\ UNCHANGED fret
    /\ UNCHANGED <<stat, srcFiles, manifest, keys, fixer, todo, dst>>
    /\ UNCHANGED <<cp, qvars, svars, xvars, pvars>>

(* publishing by a copy that can break off, in place of the rename *)
PublishByCopy(renamed) ==
    /\ fpc = "publish"
    /\ IF renamed
       THEN /\ dst' = tmp
            /\ tmp' = NoTree
            /\ fpc' = "returned"
            /\ fret' = Nil
       ELSE /\ dst' = [tmp EXCEPT !.files = {}, !.batch = <<>>]
            /\ fpc' = "rollback"
            /\ fret' = "publish"
            /\ UNCHANGED tmp
    /\ UNCHANGED <<stat, srcFiles, manifest, keys, fixer, todo>>
    /\ UNCHANGED <<cp, qvars, svars, xvars, pvars>>

(* fs.Rename(tmpDst, dst) *)
Publish(renamed) ==
    /\ fpc = "publish"
    /\ IF renamed
       THEN /\ dst' = tmp
            /\ tmp' = NoTree
            /\ fpc' = "returned"
            /\ fret' = Nil
       ELSE /\ fpc' = "rollback"
            /\ fret' = "publish"
            /\ UNCHANGED <<tmp, dst>>
    /\ UNCHANGED <<stat, srcFiles, manifest, keys, fixer, todo>>
    /\ UNCHANGED <<cp, qvars, svars, xvars, pvars>>

(* `_ = f.fs.RemoveAll(f.tmpDst)` and the return of the error: the result
   of the removal is discarded *)
Rollback(removed) ==
    /\ fpc = "rollback"
    /\ tmp' = IF removed THEN NoTree ELSE tmp
    /\ fpc' = "returned"
    /\ UNCHANGED <<stat, srcFiles, manifest, keys, fixer, todo, dst, fret>>
    /\ UNCHANGED <<cp, qvars, svars, xvars, pvars>>

FixNext ==
    \/ ReadSourceBatch
    \/ WalkError
    \/ \E mkdirOk \in BOOLEAN, copied \in BOOLEAN, leftover \in BOOLEAN :
          WalkFile(mkdirOk, copied, leftover)
    \/ \E mkdirOk \in BOOLEAN, written \in BOOLEAN : WriteManifest(mkdirOk, written)
    \/ \E renamed \in BOOLEAN : Publish(renamed)
    \/ \E removed \in BOOLEAN : Rollback(removed)

(* a queue just made by New, its consumer not started, no request in hand *)
QueueIdle ==
    /\ seq = 0
    /\ lookup = EmptyMap
    /\ queue = <<>>
    /\ m = [writer |-> NoOne, readers |-> {}]
    /\ jobs = <<>>
    /\ now = 1
    /\ ticks = 0
    /\ cancelled = FALSE
    /\ kpc = "unstarted"
    /\ cur = NoJob
    /\ lastPurgeCheck = ZeroTime
    /\ sendq = <<>>
    /\ sess = [c \in Callers |-> Idle]
    /\ resp = [req |-> 0, reply |-> "none", job |-> NoJob]
    /\ api = [pc |-> "idle", op |-> "none", j |-> NoJob, pre |-> "none", ret |-> "none"]
    /\ sent = <<>>
    /\ issued = <<>>
    /\ sig = NoSignal


(* the queue and the stream are idle while a batch is fixed *)
FixStart == FixInit /\ QueueIdle /\ NoStream /\ NoXml

FixSpec == FixStart /\ [][FixNext]_vars

----------------------------------------------------------------------------
(* Properties of the Fixer *)

(* some key of the call names no issue of the source manifest *)
UnknownKey ==
    \E i \in 1..Len(keys) :
        \A k \in 1..Len(manifest) : IssueKey(manifest[k]) # keyfix(keys[i])

(* C12: once RemoveIssues has acted on a call with a key that matches no issue
   of the source manifest, it has returned an error and neither the staging
   tree nor the destination exists, nor does either hold any file, whole or
   partial. *)
C12_UnknownKeyTouchesNothing ==
    (UnknownKey /\ fpc # "ready")
        => /\ fpc = "returned"
           /\ fret = "read"
           /\ tmp = NoTree
           /\ dst = NoTree

(* an unknown key next to a known one, over a readable manifest and a source
   that holds a file the walk would have copied *)
C12_Witness ==
    /\ fpc = "returned"
    /\ UnknownKey
    /\ \E i \in 1..Len(keys) : KeyToDir(manifest, keyfix(keys[i])) # 0
    /\ ManifestPath \in srcFiles
    /\ \E f \in srcFiles : ~WalkSkips(f, <<>>)

(* what a finished walk has copied: every source file the filter lets through *)
(* C13: the destination exists only after RemoveIssues has returned nil; the
   one step that brings it into existence is the rename, made when the
   staging tree holds every copied file, whole, and the rewritten manifest,
   and the destination is that tree. *)
C13_AtomicPublish ==
    /\ [](dst.exists => (fpc = "returned" /\ fret = Nil))
    /\ [][dst' # dst
            => /\ ~dst.exists
               /\ fpc = "publish"
               /\ tmp.files = {f \in srcFiles : ~WalkSkips(f, fixer.skipDirs)}
                                 \cup {ManifestPath}
               /\ tmp.partial = {}
               /\ tmp.batch = MarshalXML(fixer.batch)
               /\ dst' = tmp
               /\ ~tmp'.exists]_vars

(* a published destination with a copied file, from a source that also held
   a file the walk left out *)
C13_Witness ==
    /\ dst.exists
    /\ dst.files # {ManifestPath}
    /\ \E f \in srcFiles \ {ManifestPath} : WalkSkips(f, fixer.skipDirs)

(* C14: after RemoveIssues has returned an error from the walk-and-copy, the
   write-manifest or the publish step, neither the staging tree nor the
   destination exists. *)
C14_RollbackLeavesNothing ==
    (fpc = "returned" /\ fret \in {"walk", "write", "publish"})
        => (~tmp.exists /\ ~dst.exists)

(* C15: after a successful RemoveIssues with no keys, the files of the
   destination other than the rewritten manifest are exactly the source files
   other than the manifest, the validated-XML files and the TIFFs, at the
   same relative paths. *)
C15_BaselineFiltering ==
    LET name(f) == ToLower(PathSplit(f).file)
        IsValidatedXml(f) ==
            /\ Len(name(f)) >= Len(ValidatedSuffix)
            /\ SubSeq(name(f), Len(name(f)) - Len(ValidatedSuffix) + 1, Len(name(f)))
                  = ValidatedSuffix
        IsTiff(f) == Ext(name(f)) \in {TifExt, TiffExt}
    IN  (fpc = "returned" /\ fret = Nil /\ keys = <<>>)
            => dst.files \ {ManifestPath}
                  = {f \in srcFiles :
                        f # ManifestPath /\ ~IsValidatedXml(f) /\ ~IsTiff(f)}

(* C16: after a successful RemoveIssues, for every key passed and every issue
   of the source manifest with that key, the destination holds no file under
   the issue's directory and its manifest lists no issue with that key. *)
C16_RemovedIssuesAreGone ==
    LET \* the directory of an issue, from the batch's data directory: the
        \* directory part of its manifest path, a leading "./" read as "here"
        IssueDir(issue) ==
            LET dir == PathSplit(issue.Path).dir
            IN  DataDir \o (IF Len(dir) >= 2 /\ SubSeq(dir, 1, 2) = <<".", "/">>
                            THEN SubSeq(dir, 3, Len(dir))
                            ELSE dir)
        Under(f, dir) == Len(f) >= Len(dir) /\ SubSeq(f, 1, Len(dir)) = dir
    IN  (fpc = "returned" /\ fret = Nil)
            => \A i \in 1..Len(keys), k \in 1..Len(manifest) :
                  IssueKey(manifest[k]) = keyfix(keys[i])
                      => /\ \A f \in dst.files \ {ManifestPath} :
                                ~Under(f, IssueDir(manifest[k]))
                         /\ \A x \in 1..Len(dst.batch) :
                                IssueKey(dst.batch[x]) # keyfix(keys[i])

----------------------------------------------------------------------------
(* The log stream.  Time is counted in nanoseconds; the data written is a
   string over a letter and the newline. *)
MaxWrites == 2
MaxData == 3
MaxClock == 2

NL == "\n"

(* strings.Split(str, "\n"): the pieces between newlines, one more than there
   are newlines *)
RECURSIVE Split(_)
Split(str) ==
    IF \A i \in 1..Len(str) : str[i] # NL THEN <<str>>
    ELSE LET i == CHOOSE k \in 1..Len(str) :
                    str[k] = NL /\ \A h \in 1..(k - 1) : str[h] # NL
         IN  <<SubSeq(str, 1, i - 1)>> \o Split(SubSeq(str, i + 1, Len(str)))

Log(timestamp, value) == [Timestamp |-> timestamp, Value |-> value]

(* Log.String: "[timestamp] value" *)
LogString(l) == <<"[", l.Timestamp, "] ", l.Value>>

(* Write, were it to stamp every line of a call with the clock value *)
WriteOneStamp(s, data, t) ==
    IF Len(data) = 0 THEN s
    ELSE LET split == Split(data)
             lines == [split EXCEPT ![1] = s.unprocessed \o split[1]]
             end == Len(lines) - 1
         IN  [Logs |-> s.Logs \o [i \in 1..end |-> Log(t, lines[i])],
              lastWrite |-> t + end,
              unprocessed |-> lines[end + 1]]

(* Write, were it to forget the partial line of the call before *)
WriteDropsPartial(s, data, t) ==
    IF Len(data) = 0 THEN s
    ELSE LET lines == Split(data)
             end == Len(lines) - 1
         IN  [Logs |-> s.Logs \o [i \in 1..end |-> Log(t + (i - 1), lines[i])],
              lastWrite |-> t + end,
              unprocessed |-> lines[end + 1]]

(* Stream.Write(data) when timeNow() returns t: the stream afterwards *)
Write(s, data, t) ==
    IF Len(data) = 0 THEN s
    ELSE LET split == Split(data)
             lines == [split EXCEPT ![1] = s.unprocessed \o split[1]]
             end == Len(lines) - 1
         IN  [Logs |-> s.Logs \o [i \in 1..end |-> Log(t + (i - 1), lines[i])],
              lastWrite |-> t + end,
              unprocessed |-> lines[end + 1]]

(* Stream.Timestamped *)
Timestamped(s) ==
    [i \in 1..Len(s.Logs) |-> LogString(s.Logs[i])]
        \o (IF s.unprocessed # <<>>
            THEN <<LogString(Log(s.lastWrite, s.unprocessed))>>
            ELSE <<>>)

(* a call of Write: n = len(data) and a nil error are what it returns; a
   call with data reads the clock once *)
StreamWrite(data) ==
    /\ writes < MaxWrites
    /\ stream' = Write(stream, data, clock)
    /\ writes' = writes + 1
    /\ sio' = [sio EXCEPT !.bytes = @ \o data,
                          !.n = Len(data),
                          !.err = Nil,
                          !.t = IF Len(data) = 0 THEN @ ELSE clock,
                          !.k = IF Len(data) = 0 THEN @ ELSE Len(Split(data)) - 1]
    /\ UNCHANGED clock
    /\ UNCHANGED <<qvars, fvars, xvars, pvars>>

(* the clock moves on; between two moves timeNow() returns the same value *)
ClockAdvance ==
    /\ clock < MaxClock
    /\ clock' = clock + 1
    /\ UNCHANGED <<stream, writes, sio>>
    /\ UNCHANGED <<qvars, fvars, xvars, pvars>>

(* a call of Timestamped *)
StreamRead ==
    /\ sio' = [sio EXCEPT !.out = Timestamped(stream)]
    /\ UNCHANGED <<stream, clock, writes>>
    /\ UNCHANGED <<qvars, fvars, xvars, pvars>>


(* the agent with nothing under way: no job, no batch, no output yet *)
AllIdle == NoStream /\ QueueIdle /\ NoFixer /\ NoXml

StreamSpec ==
    AllIdle
        /\ [][\/ \E data \in SeqsUpTo({"a", NL}, MaxData) : StreamWrite(data)
              \/ ClockAdvance
              \/ StreamRead]_vars

(* C17: in what the stream has captured, trailing partial line included, no
   entry carries a timestamp lower than that of an entry before it. *)
C17_TimestampsNonDecreasing ==
    \A i, j \in 1..Len(Timestamped(stream)) :
        i < j => Timestamped(stream)[i][2] <= Timestamped(stream)[j][2]

----------------------------------------------------------------------------
(* Cancellation: sessions create and queue external-process jobs, the
   consumer runs them, and ctx may be cancelled at any moment.  The consumer
   goroutine and the process take their steps when they can; a select with
   both a job to receive and ctx.Done() ready picks either, and picks
   ctx.Done() sooner or later if it is ready again and again. *)
CancelNext ==
    \/ \E c \in Callers : NewJobLock(c)
    \/ \E c \in Callers : NewJobSeq(c)
    \/ \E c \in Callers, op \in {"NewJob", "QueueJob"} : NewJobCreate(c, op, "oni")
    \/ \E c \in Callers : QueueJobStamp(c)
    \/ \E c \in Callers : QueueJobSend(c)
    \/ WaitRecv
    \/ WaitCtxDone
    \/ WaitDefault
    \/ PurgeLock
    \/ PurgeSweep
    \/ WaitSleep
    \/ RunStart
    \/ RunWait
    \/ \E j \in 1..MaxJobs : RunnerEnd(j)
    \/ Cancel


CancelSpec ==
    /\ Init
    /\ [][CancelNext]_vars
    /\ SF_vars(WaitCtxDone)
    /\ WF_vars(WaitRecv)
    /\ WF_vars(WaitDefault)
    /\ WF_vars(PurgeLock)
    /\ WF_vars(PurgeSweep)
    /\ WF_vars(WaitSleep)
    /\ WF_vars(RunStart)
    /\ WF_vars(RunWait)
    /\ \A j \in 1..MaxJobs : WF_vars(RunnerEnd(j))
    /\ \A c \in Callers : WF_vars(NewJobSeq(c))
    /\ \A c \in Callers : WF_vars(\E op \in {"NewJob", "QueueJob"} :
                                     NewJobCreate(c, op, "oni"))

(* C18: once ctx is cancelled Queue.Wait returns in the end; a job whose
   process is running when ctx is cancelled, the consumer waiting on it, ends
   failed (the process was killed), not successful. *)
C18_CancelStopsConsumer ==
    /\ cancelled ~> (kpc = "returned")
    /\ \A j \in 1..MaxJobs :
          (j \in JobPtrs /\ cancelled /\ kpc = "wait" /\ cur = j /\ InProgress(j))
              ~> (j \in JobPtrs /\ jobs[j].status = StatusFailed)

(* ctx has been cancelled while the consumer waits on a running process and
   another job sits in the channel *)
C18_Witness ==
    /\ cancelled
    /\ kpc = "wait"
    /\ cur \in JobPtrs
    /\ InProgress(cur)
    /\ queue # <<>>

----------------------------------------------------------------------------
(* Queue.AllJobs and session.getJobStatus *)

AllJobsRLock(c) ==
    /\ sess[c].pc = "idle"
    /\ CanRLock
    /\ m' = [m EXCEPT !.readers = @ \cup {c}]
    /\ sess' = [sess EXCEPT ![c] = [Idle EXCEPT !.pc = "AllJobs:rlocked"]]
    /\ UNCHANGED <<seq, lookup, queue, jobs, now, ticks, cancelled, kpc, cur,
                   lastPurgeCheck, sendq, resp, api, sent, issued>>
    /\ UNCHANGED <<fvars, svars, xvars, pvars>>

(* the lists sort.Slice may leave: the jobs of lookup, each once, none placed
   after a job with a later queuedAt; jobs with equal queuedAt in any order *)
SortedByQueuedAt ==
    LET S == {lookup[id] : id \in DOMAIN lookup}
    IN  {l \in SeqsUpTo(S, Cardinality(S)) :
            /\ Len(l) = Cardinality(S)
            /\ \A x \in S : \E i \in 1..Len(l) : l[i] = x
            /\ \A i, k \in 1..Len(l) :
                  i < k => ~(jobs[l[k]].queuedAt < jobs[l[i]].queuedAt)}

(* the range over lookup and sort.Slice, made under the shared lock *)
AllJobsSort(c) ==
    /\ sess[c].pc = "AllJobs:rlocked"
    /\ \E list \in SortedByQueuedAt :
          sess' = [sess EXCEPT ![c].pc = "AllJobs:sorted", ![c].list = list]
    /\ UNCHANGED <<seq, lookup, queue, m, jobs, now, ticks, cancelled, kpc, cur,
                   lastPurgeCheck, sendq, resp, api, sent, issued>>
    /\ UNCHANGED <<fvars, svars, xvars, pvars>>

(* return list, and the deferred RUnlock *)
AllJobsReturn(c) ==
    /\ sess[c].pc = "AllJobs:sorted"
    /\ resp' = [req |-> 0, reply |-> "all", job |-> sess[c].list]
    /\ m' = [m EXCEPT !.readers = @ \ {c}]
    /\ sess' = [sess EXCEPT ![c] = Idle]
    /\ UNCHANGED <<seq, lookup, queue, jobs, now, ticks, cancelled, kpc, cur,
                   lastPurgeCheck, sendq, api, sent, issued>>
    /\ UNCHANGED <<fvars, svars, xvars, pvars>>

(* getJobStatus: s.getJob returns the job GetJob found, its RLock released *)
GetJobReturn(c) ==
    /\ sess[c].pc = "GetJob:rlocked"
    /\ m' = [m EXCEPT !.readers = @ \ {c}]
    /\ IF GetJob(sess[c].req) = NoJob
       THEN /\ resp' = [req |-> sess[c].req, reply |-> "notfound", job |-> NoJob]
            /\ sess' = [sess EXCEPT ![c] = Idle]
       ELSE /\ sess' = [sess EXCEPT ![c].pc = "getJobStatus:status",
                                    ![c].j = GetJob(sess[c].req)]
            /\ UNCHANGED resp
    /\ UNCHANGED <<seq, lookup, queue, jobs, now, ticks, cancelled, kpc, cur,
                   lastPurgeCheck, sendq, api, sent, issued>>
    /\ UNCHANGED <<fvars, svars, xvars, pvars>>

(* What `return j.status` can yield on the session's goroutine.  The status
   is a string, two words wide, read with no lock; when the consumer's next
   statement assigns the status of job j (Job.Start's or Job.Wait's
   `j.status = ...`, made with no lock held), a read that overlaps the
   assignment can pair the data word of one value with the length of the
   other. *)
StatusSeen(j) ==
    LET StatusWritePending ==
            \/ kpc = "start" /\ cur = j
            \/ kpc = "wait" /\ cur = j /\ WaitReady(jobs[j]) /\ ~WaitInvalid(jobs[j])
    IN  {jobs[j].status} \cup (IF StatusWritePending THEN {"torn"} ELSE {})

(* getJobStatus: j.Status(), and j.Error() for a job that failed *)
GetJobStatusRead(c) ==
    /\ sess[c].pc = "getJobStatus:status"
    /\ \E st \in StatusSeen(sess[c].j) :
          resp' = [req |-> sess[c].req, reply |-> st, job |-> sess[c].j]
    /\ sess' = [sess EXCEPT ![c] = Idle]
    /\ UNCHANGED <<seq, lookup, queue, m, jobs, now, ticks, cancelled, kpc, cur,
                   lastPurgeCheck, sendq, api, sent, issued>>
    /\ UNCHANGED <<fvars, svars, xvars, pvars>>

(* Sessions create, list and ask for jobs while the clock advances and the
   consumer sweeps. *)
LockNext ==
    \/ \E c \in Callers : NewJobLock(c)
    \/ \E c \in Callers : NewJobSeq(c)
    \/ \E c \in Callers : NewJobCreate(c, "NewJob", "oni")
    \/ \E c \in Callers, id \in 1..MaxJobs : GetJobRLock(c, id)
    \/ \E c \in Callers : GetJobRead(c)
    \/ \E c \in Callers : AllJobsRLock(c)
    \/ \E c \in Callers : AllJobsSort(c)
    \/ \E c \in Callers : AllJobsReturn(c)
    \/ WaitDefault
    \/ PurgeLock
    \/ PurgeSweep
    \/ WaitSleep
    \/ Tick

LockSpec == Init /\ [][LockNext]_vars

(* Sessions queue jobs, list them and ask for their status while the
   consumer runs them. *)
ShareNext ==
    \/ \E c \in Callers : NewJobLock(c)
    \/ \E c \in Callers : NewJobSeq(c)
    \/ \E c \in Callers, op \in {"NewJob", "QueueJob"} : NewJobCreate(c, op, "oni")
    \/ \E c \in Callers : QueueJobStamp(c)
    \/ \E c \in Callers : QueueJobSend(c)
    \/ \E c \in Callers, id \in 1..MaxJobs : GetJobRLock(c, id)
    \/ \E c \in Callers : GetJobReturn(c)
    \/ \E c \in Callers : GetJobStatusRead(c)
    \/ \E c \in Callers : AllJobsRLock(c)
    \/ \E c \in Callers : AllJobsSort(c)
    \/ \E c \in Callers : AllJobsReturn(c)
    \/ WaitRecv
    \/ WaitDefault
    \/ PurgeLock
    \/ PurgeSweep
    \/ WaitSleep
    \/ RunStart
    \/ RunWait
    \/ \E j \in 1..MaxJobs : RunnerEnd(j)

ShareSpec == Init /\ [][ShareNext]_vars

(* the callers inside GetJob or AllJobs, between RLock and RUnlock *)
Reading ==
    {c \in Callers :
        sess[c].pc \in {"GetJob:rlocked", "AllJobs:rlocked", "AllJobs:sorted"}}

(* C19: a caller inside GetJob or AllJobs holds the shared lock and no one
   holds the exclusive lock then; a caller allocating a job and the consumer
   inside a purge sweep hold the exclusive lock, and no caller is reading
   then; every step that changes lookup or seq is taken by the holder of the
   exclusive lock; a caller leaves GetJob or AllJobs, its read made, by
   giving up the shared lock it held. *)
C19_LockDiscipline ==
    /\ [](/\ Reading = m.readers
          /\ Reading # {} => m.writer = NoOne
          /\ \A c \in Allocating : m.writer = c
          /\ kpc = "purging" => m.writer = "Wait"
          /\ (Allocating # {} \/ kpc = "purging") => Reading = {})
    /\ [][(lookup' # lookup \/ seq' # seq)
            => /\ m.readers = {}
               /\ \/ m.writer \in Allocating /\ sess'[m.writer] # sess[m.writer]
                  \/ m.writer = "Wait" /\ kpc = "purging" /\ kpc' # kpc]_vars
    /\ [][\A c \in Reading :
              c \notin Reading'
                  => (c \in m.readers /\ c \notin m.readers' /\ m.writer = NoOne)]_vars

(* two lookups at once, of a queue a sweep has removed a job from: both
   callers hold the shared lock *)
C19_Witness ==
    /\ Cardinality(m.readers) = 2
    /\ \E c \in Callers : sess[c].pc = "GetJob:rlocked"
    /\ \E c \in Callers : sess[c].pc = "AllJobs:rlocked"
    /\ seq > Cardinality(DOMAIN lookup)

----------------------------------------------------------------------------
(* The fields of a Job that the next statement of a task writes or reads, as
   pairs <<job, field>>.  The tasks are the sessions and the consumer. *)
NextWrites(t) ==
    IF t \in Callers
    THEN IF sess[t].pc = "QueueJob:stamp" THEN {<<sess[t].j, "queuedAt">>} ELSE {}
    ELSE IF kpc = "start"
         THEN {<<cur, f>> : f \in {"err", "status", "startedAt", "purgeAt"}}
    ELSE IF kpc = "wait" /\ WaitReady(jobs[cur])
         THEN {<<cur, f>> : f \in {"err", "status", "completedAt", "purgeAt"}}
    ELSE {}

NextReads(t) ==
    IF t \in Callers
    THEN IF sess[t].pc = "getJobStatus:status"
         THEN {<<sess[t].j, "status">>, <<sess[t].j, "err">>}
         ELSE IF sess[t].pc = "AllJobs:rlocked"
         THEN {<<lookup[id], "queuedAt">> : id \in DOMAIN lookup}
         ELSE {}
    ELSE IF kpc = "purging"
         THEN {<<lookup[id], "purgeAt">> : id \in DOMAIN lookup}
         ELSE {}

(* C20: whenever one task is about to write a field of a job that another
   task is about to read, the writer holds the exclusive lock or both hold
   some lock of the queue. *)
C20_JobFieldsNotShared ==
    LET Tasks == Callers \cup {"Wait"}
        \* the locks a task holds
        Holds(t) == (IF m.writer = t THEN {"Lock"} ELSE {})
                        \cup (IF t \in m.readers THEN {"RLock"} ELSE {})
    IN  \A w \in Tasks, r \in Tasks :
            (w # r /\ NextWrites(w) \cap NextReads(r) # {})
                => ("Lock" \in Holds(w) \/ (Holds(w) # {} /\ Holds(r) # {}))

----------------------------------------------------------------------------
(* C21: the list AllJobs returns holds exactly the jobs lookup holds when it
   returns, each once, no job placed before one with an earlier queuedAt;
   the call changes neither lookup nor the channel nor any job. *)
C21_AllJobsSortedSnapshot ==
    [][\A c \in Callers :
          (sess[c].pc = "AllJobs:sorted" /\ sess'[c].pc = "idle")
              => LET l == resp'.job IN
                 /\ resp'.reply = "all"
                 /\ Len(l) = Cardinality(DOMAIN lookup)
                 /\ \A id \in DOMAIN lookup : \E i \in 1..Len(l) : l[i] = lookup[id]
                 /\ \A i, k \in 1..Len(l) :
                       i < k => jobs[l[i]].queuedAt <= jobs[l[k]].queuedAt
                 /\ UNCHANGED <<lookup, queue, jobs, seq>>]_vars

----------------------------------------------------------------------------
(* C22: ParseBatch, given skip keys of which one, normalized, is the key of
   no issue of the manifest, returns an error and no manifest, whatever the
   other keys are; and once RemoveIssues has acted on such a call it has
   returned the read error with no batch kept, no directory to skip derived,
   no file queued for the walk or copied, and no manifest written. *)
C22_SkipKeysAllOrNothing ==
    /\ UnknownKey
          => LET parsed == ParseBatch(ManifestPath \in srcFiles, manifest, keys)
             IN  parsed.err # Nil /\ parsed.b = <<>>
    /\ (UnknownKey /\ fpc # "ready")
          => /\ fpc = "returned"
             /\ fret = "read"
             /\ fixer.batch = <<>>
             /\ fixer.skipDirs = <<>>
             /\ todo = <<>>
             /\ tmp.files = {} /\ tmp.partial = {} /\ tmp.batch = <<>>
             /\ dst.files = {} /\ dst.batch = <<>>

(* RemoveIssues has returned on two keys over a readable manifest: the first
   is the key of an issue whose directory holds a file, the second is the
   key of none *)
C22_Witness ==
    /\ fpc = "returned"
    /\ fret = "read"
    /\ ManifestPath \in srcFiles
    /\ Len(keys) = 2
    /\ KeyToDir(manifest, keyfix(keys[1])) # 0
    /\ KeyToDir(manifest, keyfix(keys[2])) = 0
    /\ \E f \in srcFiles \ {ManifestPath} :
          Contains(PathSplit(f).dir,
                   PathSplit(manifest[KeyToDir(manifest, keyfix(keys[1]))].Path).dir)

----------------------------------------------------------------------------
(* batch.xml as a document: the attributes of the opening tag, as
   <<name, value>> pairs, and the child elements in document order *)
MaxChildren == 3

(* the value of the attribute called name, empty when there is none *)
AttrVal(attrs, name) ==
    IF \E i \in 1..Len(attrs) : attrs[i][1] = name
    THEN attrs[CHOOSE i \in 1..Len(attrs) :
                  /\ attrs[i][1] = name
                  /\ \A k \in 1..(i - 1) : attrs[k][1] # name][2]
    ELSE <<>>

makeattr(name, val) == <<name, val>>

IssueElem(i) ==
    [tag |-> "issue",
     attrs |-> <<makeattr("lccn", i.LCCN), makeattr("issueDate", i.IssueDate),
                 makeattr("editionOrder", i.Edition)>>,
     inner |-> i.Path]

reelXML(reelNum, pth) == [ReelNum |-> reelNum, Path |-> pth]

ReelElem(r) ==
    [tag |-> "reel", attrs |-> <<makeattr("reelNumber", r.ReelNum)>>,
     inner |-> r.Path]

(* xml.Unmarshal into BatchXML: the three attributes by name, the issue
   elements into Issues and the reel elements into Reels, each in document
   order; any other element is passed over *)
Unmarshal(doc) ==
    LET issues == SelectSeq(doc.children, LAMBDA e : e.tag = "issue")
        reels == SelectSeq(doc.children, LAMBDA e : e.tag = "reel")
    IN  [Name |-> AttrVal(doc.attrs, "name"),
         Awardee |-> AttrVal(doc.attrs, "awardee"),
         AwardYear |-> AttrVal(doc.attrs, "awardYear"),
         Issues |-> [k \in 1..Len(issues) |->
                        IssueXML(AttrVal(issues[k].attrs, "lccn"),
                                 AttrVal(issues[k].attrs, "issueDate"),
                                 AttrVal(issues[k].attrs, "editionOrder"),
                                 issues[k].inner)],
         Reels |-> [k \in 1..Len(reels) |->
                       reelXML(AttrVal(reels[k].attrs, "reelNumber"),
                               reels[k].inner)]]

(* MarshalXML, were its wrapper to leave the reels out *)
EncodeBatchNoReels(b) ==
    LET issues == MarshalXML(b.Issues) IN
    [tag |-> "ndnp:batch",
     attrs |-> <<makeattr("name", b.Name), makeattr("awardee", b.Awardee),
                 makeattr("awardYear", b.AwardYear)>>,
     children |-> [k \in 1..Len(issues) |-> IssueElem(issues[k])]]

(* BatchXML.MarshalXML: the wrapper of the issues to emit and the reels,
   encoded under the ndnp:batch start tag *)
EncodeBatch(b) ==
    LET issues == MarshalXML(b.Issues) IN
    [tag |-> "ndnp:batch",
     attrs |-> <<makeattr("xmlns:ndnp", <<"ndnp">>),
                 makeattr("xmlns:xsi", <<"xsi">>),
                 makeattr("xmlns", <<"ndnp">>),
                 makeattr("name", b.Name),
                 makeattr("awardee", b.Awardee),
                 makeattr("awardYear", b.AwardYear)>>,
     children |-> [k \in 1..Len(issues) |-> IssueElem(issues[k])]
                    \o [k \in 1..Len(b.Reels) |-> ReelElem(b.Reels[k])]]

XmlInit ==
    /\ \E n \in {<<"b", "1">>, <<"b", "2">>}, a \in {<<"o", "r", "u">>, <<>>},
          y \in {<<"2", "3">>} :
          \E order \in {<<"name", "awardee", "awardYear">>,
                        <<"awardYear", "awardee", "name">>} :
              /\ \E ch \in SeqsUpTo({IssueElem(IssueA), IssueElem(IssueB),
                                     ReelElem(reelXML(<<"1">>, <<"r", "/", "1">>)),
                                     ReelElem(reelXML(<<"2">>, <<"r", "/", "2">>))},
                                    MaxChildren) :
                    srcXml =
                        [tag |-> "ndnp:batch",
                         attrs |-> [k \in 1..3 |->
                                      makeattr(order[k],
                                               IF order[k] = "name" THEN n
                                               ELSE IF order[k] = "awardee" THEN a
                                               ELSE y)],
                         children |-> ch]
    /\ xmlKeys \in SeqsUpTo(KeyCands, MaxKeys)
    /\ batchXml = NoBatch
    /\ dstXml = NoDoc
    /\ reXml = NoBatch

(* ParseBatch of a readable file *)
XmlParse ==
    /\ batchXml.err = "none"
    /\ LET b == Unmarshal(srcXml)
           parsed == ParseBatch(TRUE, b.Issues, xmlKeys)
       IN  batchXml' = IF parsed.err = Nil
                       THEN [err |-> Nil, b |-> [b EXCEPT !.Issues = parsed.b]]
                       ELSE [NoBatch EXCEPT !.err = Err]
    /\ UNCHANGED <<srcXml, xmlKeys, dstXml, reXml>>
    /\ UNCHANGED <<qvars, fvars, svars, pvars>>

(* WriteBatchXML of the batch ParseBatch returned *)
XmlWrite ==
    /\ batchXml.err = Nil
    /\ dstXml = NoDoc
    /\ dstXml' = EncodeBatch(batchXml.b)
    /\ UNCHANGED <<srcXml, xmlKeys, batchXml, reXml>>
    /\ UNCHANGED <<qvars, fvars, svars, pvars>>

(* ParseBatch of the file WriteBatchXML wrote, with no skip keys *)
XmlReparse ==
    /\ dstXml # NoDoc
    /\ reXml.err = "none"
    /\ LET b == Unmarshal(dstXml)
           parsed == ParseBatch(TRUE, b.Issues, <<>>)
       IN  reXml' = IF parsed.err = Nil
                    THEN [err |-> Nil, b |-> [b EXCEPT !.Issues = parsed.b]]
                    ELSE [NoBatch EXCEPT !.err = Err]
    /\ UNCHANGED <<srcXml, xmlKeys, batchXml, dstXml>>
    /\ UNCHANGED <<qvars, fvars, svars, pvars>>

XmlStart == XmlInit /\ QueueIdle /\ NoFixer /\ NoStream

XmlSpec == XmlStart /\ [][XmlParse \/ XmlWrite \/ XmlReparse]_vars

(* C23: the manifest written holds, as its issue elements, exactly the
   issues of the batch whose Skip is false, in the order the batch has them
   and each as the source gave it; it holds every reel of the source, in
   order, and nothing else, under the name, awardee and awardYear of the
   source. *)
C23_ManifestKeepsUnskipped ==
    dstXml # NoDoc
        => LET kept == SelectSeq(batchXml.b.Issues, LAMBDA i : ~i.Skip)
               IssuesOf(doc) == SelectSeq(doc.children, LAMBDA e : e.tag = "issue")
               ReelsOf(doc) == SelectSeq(doc.children, LAMBDA e : e.tag = "reel")
           IN
           /\ IssuesOf(dstXml) = [k \in 1..Len(kept) |-> IssueElem(kept[k])]
           /\ Len(batchXml.b.Issues) = Len(IssuesOf(srcXml))
           /\ \A k \in 1..Len(kept) :
                 \E i \in 1..Len(srcXml.children) : srcXml.children[i] = IssueElem(kept[k])
           /\ ReelsOf(dstXml) = ReelsOf(srcXml)
           /\ Len(dstXml.children) = Len(IssuesOf(dstXml)) + Len(ReelsOf(dstXml))
           /\ \A name \in {"name", "awardee", "awardYear"} :
                 AttrVal(dstXml.attrs, name) = AttrVal(srcXml.attrs, name)

(* a manifest of two issues and a reel between them, written with the first
   issue skipped *)
C23_Witness ==
    /\ dstXml # NoDoc
    /\ Len(srcXml.children) = 3
    /\ srcXml.children[2].tag = "reel"
    /\ srcXml.children[1].tag = "issue"
    /\ srcXml.children[3].tag = "issue"
    /\ batchXml.b.Issues[1].Skip
    /\ Len(dstXml.children) = 2

----------------------------------------------------------------------------
(* C24: once the Wait of a title-load runner has returned, the run that its
   Start launched has ended: the file is staged and load_titles has run, or
   one of them has failed. *)
C24_TitleWaitAfterRun ==
    \A j \in JobPtrs :
        (jobs[j].kind = "title" /\ jobs[j].r.waitRet # "none")
            => jobs[j].r.state = "done"

(* C25: once the Wait of a batch-patch runner has returned, the run that its
   Start launched has ended, and Wait has returned the error that run stored,
   nil when it stored none. *)
C25_PatchWaitAfterRun ==
    \A j \in JobPtrs :
        (jobs[j].kind = "patch" /\ jobs[j].r.waitRet # "none")
            => /\ jobs[j].r.state = "done"
               /\ ~jobs[j].r.running
               /\ jobs[j].r.waitRet = jobs[j].r.err

(* the consumer has waited for two batch patches: one ended with an error,
   which Wait returned, and one without *)
C25_Witness ==
    /\ \E j \in JobPtrs :
          /\ jobs[j].kind = "patch"
          /\ jobs[j].r.state = "done"
          /\ jobs[j].r.waitRet = Err
          /\ jobs[j].status = StatusFailed
    /\ \E j \in JobPtrs :
          /\ jobs[j].kind = "patch"
          /\ jobs[j].r.state = "done"
          /\ jobs[j].r.waitRet = Nil
          /\ jobs[j].status = StatusSuccessful

----------------------------------------------------------------------------
(* C26: a job is created pending; every change of its status is one of
   pending to couldn't start, pending to started, started to successful and
   started to failed; and every answer to a job-status request is a status
   the job has had, not earlier in that order than the status the previous
   answer gave for the same job. *)
C26_StatusOrder ==
    /\ [][LET StatusSteps ==
                {<<StatusPending, StatusFailStart>>, <<StatusPending, StatusStarted>>,
                 <<StatusStarted, StatusSuccessful>>, <<StatusStarted, StatusFailed>>}
          IN  \A j \in 1..Len(jobs') :
                  IF j \in JobPtrs
                  THEN jobs'[j].status # jobs[j].status
                          => <<jobs[j].status, jobs'[j].status>> \in StatusSteps
                  ELSE jobs'[j].status = StatusPending]_vars
    /\ [][LET StatusRank(st) ==
                CASE st = StatusPending -> 0
                  [] st = StatusStarted -> 1
                  [] st = StatusFailStart -> 2
                  [] st \in {StatusSuccessful, StatusFailed} -> 3
              \* the statuses a job has had, given the one it has
              StatusesTaken(st) ==
                CASE st = StatusPending -> {StatusPending}
                  [] st = StatusStarted -> {StatusPending, StatusStarted}
                  [] st = StatusFailStart -> {StatusPending, StatusFailStart}
                  [] st \in {StatusSuccessful, StatusFailed}
                        -> {StatusPending, StatusStarted, st}
          IN  \A c \in Callers :
                  \* the step in which caller c gets the answer to its request
                  (sess[c].pc = "getJobStatus:status" /\ sess'[c].pc = "idle")
                      => /\ resp'.reply \in StatusesTaken(jobs[resp'.job].status)
                         /\ (resp.reply \in StatusesTaken(jobs[resp'.job].status)
                                /\ resp.job = resp'.job)
                               => StatusRank(resp.reply) <= StatusRank(resp'.reply)]_vars

----------------------------------------------------------------------------
(* C27: Wait on a job whose Start failed returns a non-nil error and leaves
   the job as the failed Start left it: status couldn't start, and err,
   purgeAt and every other field unchanged. *)
C27_WaitAfterFailedStart ==
    [][\A j \in JobPtrs :
          (ApiWait(j) /\ jobs[j].status = StatusFailStart)
              => /\ api'.ret # Nil
                 /\ jobs[j].err # Nil
                 /\ jobs'[j] = jobs[j]]_vars

(* Wait has refused a job that ran once and then could not be started again:
   it has a start time, and only the recorded error stops Wait *)
C27_Witness ==
    /\ api.op = "Wait"
    /\ api.pre = StatusFailStart
    /\ api.ret = Err
    /\ jobs[api.j].status = StatusFailStart
    /\ jobs[api.j].err = Err
    /\ jobs[api.j].startedAt # ZeroTime
    /\ jobs[api.j].purgeAt = now + FailRetention

----------------------------------------------------------------------------
(* The consumer loop under the Go scheduler: every goroutine that can take
   its next statement takes it in the end, the consumer as well as a caller
   that is inside NewJob or QueueJob.  Nothing makes an external process
   exit, and nothing makes callers stop or go on submitting. *)

PurgeSpec ==
    /\ Init
    /\ [][ClockNext]_vars
    /\ WF_vars(WaitRecv)
    /\ WF_vars(WaitDefault)
    /\ WF_vars(PurgeLock)
    /\ WF_vars(PurgeSweep)
    /\ WF_vars(WaitSleep)
    /\ WF_vars(RunStart)
    /\ WF_vars(RunWait)
    /\ \A c \in Callers :
          /\ WF_vars(NewJobSeq(c))
          /\ WF_vars(\E op \in {"NewJob", "QueueJob"} : NewJobCreate(c, op, "oni"))
          /\ WF_vars(QueueJobStamp(c))
          /\ WF_vars(QueueJobSend(c))

(* C28: a job that is in lookup with its purgeAt passed is deleted from
   lookup in the end, unless its purgeAt is set anew by the end of its run
   (the consumer loop of this specification never returns). *)
C28_PurgeGuaranteed ==
    \A id \in 1..MaxJobs :
        (id \in DOMAIN lookup /\ now > jobs[lookup[id]].purgeAt)
            ~> (id \notin DOMAIN lookup \/ now <= jobs[lookup[id]].purgeAt)

----------------------------------------------------------------------------
(* C29: once ctx is cancelled the consumer takes no job out of the channel:
   every job that is in the channel stays there, in its place, with status
   pending and a runner that was never started. *)
C29_NoReceiveAfterCancel ==
    [][cancelled
          => \A i \in 1..Len(queue) :
                /\ i <= Len(queue')
                /\ queue'[i] = queue[i]
                /\ jobs'[queue[i]].status = StatusPending
                /\ jobs'[queue[i]].r.state = "none"]_vars

----------------------------------------------------------------------------
(* the jobs QueueJob has stamped: sent into the channel, or held by a
   caller that is about to send or is parked in the send *)
(* C30: the step that creates a job puts it into lookup under its id, with
   status pending and a zero queuedAt, and leaves the channel as it was; a
   job's queuedAt is non-zero exactly if QueueJob has stamped it, which it
   does on the way to the send; and a job that was not pushed is never in
   the channel nor in the consumer's hands, stays pending and its runner is
   never started. *)
C30_CreateThenPush ==
    /\ [][Len(jobs') > Len(jobs)
            => LET j == Len(jobs') IN
               /\ Len(jobs') = Len(jobs) + 1
               /\ jobs'[j].id \in DOMAIN lookup'
               /\ lookup'[jobs'[j].id] = j
               /\ jobs'[j].status = StatusPending
               /\ jobs'[j].queuedAt = ZeroTime
               /\ queue' = queue /\ sent' = sent /\ cur' = cur]_vars
    /\ [](LET Stamped ==
                Sent \cup {sess[c].j : c \in {d \in Callers :
                                sess[d].pc \in {"QueueJob:send", "QueueJob:parked"}}}
          IN  \A j \in JobPtrs :
                /\ jobs[j].queuedAt # ZeroTime <=> j \in Stamped
                /\ jobs[j].queuedAt = ZeroTime
                      => /\ \A i \in 1..Len(queue) : queue[i] # j
                         /\ cur # j
                         /\ jobs[j].status = StatusPending
                         /\ jobs[j].r.state = "none")

(* a job that was created and not pushed is still pending, in lookup under
   its id, after the consumer has run a job created after it to its end *)
C30_Witness ==
    /\ Len(jobs) = 2
    /\ jobs[1].queuedAt = ZeroTime
    /\ jobs[1].status = StatusPending
    /\ GetJob(jobs[1].id) = 1
    /\ jobs[2].queuedAt # ZeroTime
    /\ Terminal(jobs[2].status)
    /\ kpc = "sleep"
    /\ \A c \in Callers : sess[c].pc = "idle"

----------------------------------------------------------------------------
(* NewFixer.  Each of the three paths is, to Stat, absent (an error for
   which os.IsNotExist holds), a file, a directory, or denied (any other
   error). *)

(* NewFixer, were it not to look at the staging sibling *)
NewFixerNoStagingCheck ==
    /\ fpc = "new"
    /\ LET err == IF stat.src \notin {"file", "dir"} THEN "source"
                  ELSE IF stat.src # "dir" THEN "source"
                  ELSE IF stat.dst # "absent" THEN "destination"
                  ELSE Nil
       IN  /\ fret' = err
           /\ fpc' = IF err = Nil THEN "ready" ELSE "rejected"
    /\ UNCHANGED <<stat, srcFiles, manifest, keys, fixer, todo, tmp, dst>>
    /\ UNCHANGED <<cp, qvars, svars, xvars, pvars>>

(* NewFixer: Stat(src) must succeed and find a directory; Stat(dst) and
   Stat(tmpDst) must each fail with a not-exist error.  Nothing but Stat is
   called. *)
NewFixer ==
    /\ fpc = "new"
    /\ LET err == IF stat.src \notin {"file", "dir"} THEN "source"
                  ELSE IF stat.src # "dir" THEN "source"
                  ELSE IF stat.dst # "absent" THEN "destination"
                  ELSE IF stat.tmpDst # "absent" THEN "temporary"
                  ELSE Nil
       IN  /\ fret' = err
           /\ fpc' = IF err = Nil THEN "ready" ELSE "rejected"
    /\ UNCHANGED <<stat, srcFiles, manifest, keys, fixer, todo, tmp, dst>>
    /\ UNCHANGED <<cp, qvars, svars, xvars, pvars>>

(* a call of NewFixer about to be made, on any filesystem *)
NewFixerStart ==
    /\ stat \in [src : {"absent", "file", "dir", "denied"},
                  dst : {"absent", "file", "dir", "denied"},
                  tmpDst : {"absent", "file", "dir", "denied"}]
    /\ srcFiles = {}
    /\ manifest = <<>>
    /\ keys = <<>>
    /\ fixer = [skipDirs |-> <<>>, batch |-> <<>>]
    /\ fpc = "new"
    /\ todo = {}
    /\ tmp = NoTree
    /\ dst = NoTree
    /\ fret = "none"
    /\ cp = NoCopy
    /\ QueueIdle /\ NoStream /\ NoXml

NewFixerSpec == NewFixerStart /\ [][NewFixer]_vars

(* C31: NewFixer returns an error and no Fixer exactly when the source is
   not there to Stat, the source is not a directory, or the destination or
   its staging sibling is not known to be absent (it is a file, a directory,
   or Stat fails on it otherwise than with not-exist); otherwise it returns a
   Fixer; and no step of it creates, changes or removes anything. *)
C31_NewFixerValidates ==
    /\ [](fpc # "new"
            => /\ (fpc = "rejected" /\ fret # Nil)
                     <=> \/ stat.src # "dir"
                         \/ stat.dst # "absent"
                         \/ stat.tmpDst # "absent"
               /\ (fpc = "ready" /\ fret = Nil)
                     <=> (stat.src = "dir" /\ stat.dst = "absent"
                             /\ stat.tmpDst = "absent")
               /\ tmp = NoTree /\ dst = NoTree)
    /\ [][UNCHANGED <<stat, srcFiles, manifest, tmp, dst>>]_vars

(* NewFixer has turned down a destination whose staging sibling alone
   exists *)
C31_Witness ==
    /\ fpc = "rejected"
    /\ stat = [src |-> "dir", dst |-> "absent", tmpDst |-> "dir"]

----------------------------------------------------------------------------
(* C32: after a successful RemoveIssues, every source file that the name
   tests of the walk let through (not named batch.xml, not a validated XML,
   not a TIFF) and that does not lie under the directory of an issue marked
   Skip is in the destination, at its own path. *)
C32_SkipDirsByPrefixOnly ==
    LET \* the directory of an issue, from the batch's data directory: the
        \* directory part of its manifest path, a leading "./" read as "here"
        IssueDir(issue) ==
            LET dir == PathSplit(issue.Path).dir
            IN  DataDir \o (IF Len(dir) >= 2 /\ SubSeq(dir, 1, 2) = <<".", "/">>
                            THEN SubSeq(dir, 3, Len(dir))
                            ELSE dir)
        Under(f, dir) == Len(f) >= Len(dir) /\ SubSeq(f, 1, Len(dir)) = dir
    IN  (fpc = "returned" /\ fret = Nil)
            => \A f \in srcFiles :
                  (/\ ~WalkSkips(f, <<>>)
                   /\ \A k \in 1..Len(fixer.batch) :
                         fixer.batch[k].Skip => ~Under(f, IssueDir(fixer.batch[k])))
                      => f \in dst.files

----------------------------------------------------------------------------
(* C33: in every manifest ParseBatch returns no two issues have the same
   normalized key, and an issue is marked Skip exactly if its key is one of
   the skip keys. *)
C33_KeysUnique ==
    batchXml.err = Nil
        => LET issues == batchXml.b.Issues IN
           /\ \A a, b \in 1..Len(issues) :
                 IssueKey(issues[a]) = IssueKey(issues[b]) => a = b
           /\ \A k \in 1..Len(issues) :
                 issues[k].Skip
                    <=> \E i \in 1..Len(xmlKeys) :
                           keyfix(xmlKeys[i]) = IssueKey(issues[k])

----------------------------------------------------------------------------
(* C34: parsing, with no skip keys, the manifest that WriteBatchXML wrote for
   a batch ParseBatch had accepted succeeds, and gives the issues of that
   batch not marked Skip, in order, with its reels, name, awardee and award
   year. *)
C34_ManifestRoundTrip ==
    reXml.err # "none"
        => /\ reXml.err = Nil
           /\ reXml.b.Issues = SelectSeq(batchXml.b.Issues, LAMBDA i : ~i.Skip)
           /\ reXml.b.Reels = batchXml.b.Reels
           /\ reXml.b.Name = batchXml.b.Name
           /\ reXml.b.Awardee = batchXml.b.Awardee
           /\ reXml.b.AwardYear = batchXml.b.AwardYear

(* C34, amended: the second parse succeeds exactly if the batch had an issue
   not marked Skip, and then gives those issues, in order, with the reels,
   name, awardee and award year of the batch; a manifest written with every
   issue skipped holds no issue and ParseBatch turns it down. *)
C34_RoundTripWhenKept ==
    reXml.err # "none"
        => IF \E k \in 1..Len(batchXml.b.Issues) : ~batchXml.b.Issues[k].Skip
           THEN /\ reXml.err = Nil
                /\ reXml.b.Issues = SelectSeq(batchXml.b.Issues, LAMBDA i : ~i.Skip)
                /\ reXml.b.Reels = batchXml.b.Reels
                /\ reXml.b.Name = batchXml.b.Name
                /\ reXml.b.Awardee = batchXml.b.Awardee
                /\ reXml.b.AwardYear = batchXml.b.AwardYear
           ELSE reXml.err = Err

(* a manifest of two issues with a reel, written with one issue skipped, has
   been parsed again *)
C34_Witness ==
    /\ reXml.err = Nil
    /\ Len(batchXml.b.Issues) = 2
    /\ batchXml.b.Issues[2].Skip
    /\ Len(reXml.b.Issues) = 1
    /\ Len(reXml.b.Reels) = 1

----------------------------------------------------------------------------
(* C35: no step of RemoveIssues changes the source: the files under it, its
   manifest and what Stat finds at its root stay as they were, whether the
   call succeeds or fails.  The destination and its staging sibling are
   trees of their own, outside the source. *)
C35_SourceUntouched ==
    [][srcFiles' = srcFiles /\ manifest' = manifest /\ stat'.src = stat.src]_vars

(* a call that failed in the middle of a copy and could not clear the
   staging tree, on a source that holds files *)
C35_Witness ==
    /\ fpc = "returned"
    /\ fret = "walk"
    /\ tmp.exists
    /\ tmp.partial # {}
    /\ tmp.files # {}
    /\ Cardinality(srcFiles) >= 3

----------------------------------------------------------------------------
(* file.Copy.  dest is absent, stale (a file is there already), partial
   (created by an attempt that then failed), complete, or same (dest names
   the source file itself).  tries lists what each call of doCopy returned:
   Nil, or the step that failed. *)
MaxRetry == 3

(* one turn of the loop: `n < maxRetry`, then doCopy.  Open and Create fail
   before dest is written; a failed write, sync or close leaves what Create
   and io.Copy had put there.  The sleep before a repeated attempt takes no
   part in the result. *)
CopyAttempt(outcome) ==
    /\ cp.pc = "loop"
    /\ cp.n < cp.maxRetry
    /\ LET ret == IF cp.dest = "same" THEN Nil ELSE outcome IN
          cp' = [cp EXCEPT
                   !.err = ret,
                   !.tries = Append(@, ret),
                   !.n = IF ret = Nil THEN @ ELSE @ + 1,
                   !.pc = IF ret = Nil THEN "returned" ELSE @,
                   !.dest = IF cp.dest = "same" THEN @
                            ELSE IF ret = Nil THEN "complete"
                            ELSE IF ret \in {"read", "create"} THEN @
                            ELSE "partial"]
    /\ UNCHANGED <<stat, srcFiles, manifest, keys, fixer, fpc, todo, tmp, dst, fret>>
    /\ UNCHANGED <<qvars, svars, xvars, pvars>>

(* the loop ends, `n < maxRetry` being false: `return err` *)
CopyReturn ==
    /\ cp.pc = "loop"
    /\ cp.n >= cp.maxRetry
    /\ cp' = [cp EXCEPT !.pc = "returned"]
    /\ UNCHANGED <<stat, srcFiles, manifest, keys, fixer, fpc, todo, tmp, dst, fret>>
    /\ UNCHANGED <<qvars, svars, xvars, pvars>>

(* a call Copy(fs, src, dest, maxRetry) about to be made *)
CopyStart ==
    /\ \E mr \in 0..MaxRetry, d \in {"absent", "stale", "same"} :
          cp = [NoCopy EXCEPT !.pc = "loop", !.maxRetry = mr, !.dest = d]
    /\ stat = [src |-> "absent", dst |-> "absent", tmpDst |-> "absent"]
    /\ srcFiles = {}
    /\ manifest = <<>>
    /\ keys = <<>>
    /\ fixer = [skipDirs |-> <<>>, batch |-> <<>>]
    /\ fpc = "none"
    /\ todo = {}
    /\ tmp = NoTree
    /\ dst = NoTree
    /\ fret = "none"
    /\ QueueIdle /\ NoStream /\ NoXml

CopySpec ==
    CopyStart
        /\ [][\/ \E outcome \in {Nil, "read", "create", "write", "sync", "close"} :
                    CopyAttempt(outcome)
              \/ CopyReturn]_vars

(* C36: when Copy has returned it has made at least one and at most maxRetry
   attempts, every attempt but the last has failed, it returns nil exactly
   if the last attempt succeeded and otherwise the error of the last of
   maxRetry attempts, and it returns nil only with dest a complete copy. *)
C36_BoundedRetry ==
    cp.pc = "returned"
        => /\ Len(cp.tries) >= 1
           /\ Len(cp.tries) <= cp.maxRetry
           /\ \A i \in 1..(Len(cp.tries) - 1) : cp.tries[i] # Nil
           /\ cp.err = (IF cp.tries = <<>> THEN Err ELSE cp.tries[Len(cp.tries)])
           /\ cp.err # Nil => Len(cp.tries) = cp.maxRetry
           /\ cp.err = Nil => cp.dest \in {"complete", "same"}

----------------------------------------------------------------------------
(* C37: a Write call that completes k lines appends k entries, the i-th of
   them (from 0) stamped with the clock value read for the call plus i
   nanoseconds, so each later than the one before, and leaves the earlier
   entries as they were. *)
C37_StampsWithinWrite ==
    [][writes' # writes
         => LET old == Len(stream.Logs)
                k == Len(stream'.Logs) - old
            IN  /\ k = (IF sio'.n = 0 THEN 0 ELSE sio'.k)
                /\ SubSeq(stream'.Logs, 1, old) = stream.Logs
                /\ \A i \in 0..(k - 1) :
                      stream'.Logs[old + i + 1].Timestamp = clock + i
                /\ \A i \in 1..(k - 1) :
                      stream'.Logs[old + i].Timestamp
                          < stream'.Logs[old + i + 1].Timestamp]_vars

(* one Write call has completed three lines, the clock past its start *)
C37_Witness ==
    /\ writes = 1
    /\ Len(stream.Logs) = 3
    /\ stream.Logs[1].Timestamp > 0
    /\ stream.Logs[3].Timestamp = stream.Logs[1].Timestamp + 2

(* C38: the entries recorded are the newline-terminated lines of all the
   bytes written, in order, empty lines included, and the partial line held
   back is what follows the last newline; Write returns len(data) and a nil
   error; Timestamped returns the entries followed by the partial line if it
   is not empty, and leaves the stream as it was. *)
C38_LineBufferingLossless ==
    /\ [](LET pieces == Split(sio.bytes) IN
          /\ Len(stream.Logs) = Len(pieces) - 1
          /\ \A i \in 1..Len(stream.Logs) : stream.Logs[i].Value = pieces[i]
          /\ stream.unprocessed = pieces[Len(pieces)])
    /\ [][writes' # writes
            => /\ sio'.n = Len(sio'.bytes) - Len(sio.bytes)
               /\ sio'.err = Nil]_vars
    /\ [][sio'.out # sio.out
            => LET pieces == Split(sio.bytes)
                   shown == IF pieces[Len(pieces)] = <<>>
                            THEN SubSeq(pieces, 1, Len(pieces) - 1)
                            ELSE pieces
               IN  /\ stream' = stream
                   /\ Len(sio'.out) = Len(shown)
                   /\ \A i \in 1..Len(shown) : sio'.out[i][4] = shown[i]]_vars

(* two writes that split a line between them, after an empty line, and a
   third piece still unterminated, all returned by Timestamped *)
C38_Witness ==
    /\ writes = 2
    /\ sio.n = 3
    /\ Len(stream.Logs) = 2
    /\ stream.Logs[1].Value = <<>>
    /\ Len(stream.Logs[2].Value) = 2
    /\ stream.unprocessed # <<>>
    /\ Len(sio.out) = 3

(* C39 as stated: the partial line carries the clock value read by the most
   recent Write call that had data. *)
C39_PartialStampedAtClock ==
    (stream.unprocessed # <<>> /\ sio.out = Timestamped(stream))
        => sio.out[Len(sio.out)] = LogString(Log(sio.t, stream.unprocessed))

(* what Timestamped gives the partial line: the clock value read by the most
   recent Write call that had data, plus one nanosecond for every line that
   call completed *)
PartialStampedAfterLines ==
    (stream.unprocessed # <<>> /\ sio.out = Timestamped(stream))
        => sio.out[Len(sio.out)]
              = LogString(Log(sio.t + sio.k, stream.unprocessed))

----------------------------------------------------------------------------
(* cmd/agent: trapIntTerm and the quit callback main gives it *)

MaxSignals == 3

(* the runtime hands a signal to the channel of capacity 1 without blocking:
   a signal that finds the channel full is dropped *)
SigNotify(s) ==
    /\ sig.exit = "none"
    /\ Len(sig.got) < MaxSignals
    /\ sig' = [sig EXCEPT !.got = Append(@, s),
                          !.c = IF Len(@) < 1 THEN Append(@, s) ELSE @,
                          !.lost = IF Len(sig.c) < 1 THEN @ ELSE @ + 1]
    /\ UNCHANGED <<qvars, fvars, svars, xvars>>

(* one turn of the goroutine's loop: receive a signal; if done() exit with
   status 1; otherwise store 1 in isDone and call quit, which cancels the
   context and goes on to srv.Close() *)
SigHandle ==
    /\ sig.exit = "none"
    /\ sig.pc = "range"
    /\ sig.c # <<>>
    /\ IF sig.isDone = 1
       THEN /\ sig' = [sig EXCEPT !.c = Tail(@), !.exit = "os.Exit(1)"]
            /\ UNCHANGED cancelled
       ELSE /\ sig' = [sig EXCEPT !.c = Tail(@), !.isDone = 1,
                                  !.quits = @ + 1, !.pc = "srv.Close"]
            /\ cancelled' = TRUE
    /\ UNCHANGED <<seq, lookup, queue, m, jobs, now, ticks, kpc, cur,
                   lastPurgeCheck, sendq, sess, resp, api, sent, issued>>
    /\ UNCHANGED <<fvars, svars, xvars>>

(* the quit callback goes on: srv.Close() returns and dbPool.Close() is
   called, or dbPool.Close() returns and with it the callback *)
QuitStep ==
    /\ sig.exit = "none"
    /\ \/ /\ sig.pc = "srv.Close"
          /\ sig' = [sig EXCEPT !.pc = "dbPool.Close", !.srvClosed = TRUE]
       \/ /\ sig.pc = "dbPool.Close"
          /\ sig' = [sig EXCEPT !.pc = "range"]
    /\ UNCHANGED <<qvars, fvars, svars, xvars>>

(* main: ListenAndServe returns once the server is closed, and main returns *)
MainReturn ==
    /\ sig.exit = "none"
    /\ sig.srvClosed
    /\ sig' = [sig EXCEPT !.exit = "main"]
    /\ UNCHANGED <<qvars, fvars, svars, xvars>>

(* The goroutine started by trapIntTerm and the main goroutine are scheduled
   fairly; nothing makes srv.Close() or dbPool.Close() return, and nothing
   makes a signal arrive. *)
SigSpec ==
    /\ AllIdle
    /\ [][(\E s \in {"SIGINT", "SIGTERM"} : SigNotify(s))
            \/ SigHandle \/ QuitStep \/ MainReturn]_vars
    /\ WF_vars(SigHandle)
    /\ WF_vars(MainReturn)

(* C40: the first interrupt or termination signal invokes the quit callback,
   the callback is invoked at most once, and any second signal ends the
   process, also while the callback started by the first has not returned. *)
C40_SecondSignalEndsProcess ==
    /\ [](sig.quits <= 1)
    /\ (Len(sig.got) >= 1) ~> (sig.quits = 1)
    /\ (Len(sig.got) >= 2) ~> (sig.exit # "none")

(* what trapIntTerm does give: the callback is invoked for the first signal
   and never twice, and a signal received by the goroutine after that ends
   the process with status 1 *)
SignalsHandledInTurn ==
    /\ [](sig.quits <= 1)
    /\ (Len(sig.got) >= 1) ~> (sig.quits = 1)
    /\ [][sig'.exit = "os.Exit(1)" /\ sig.exit = "none"
            => sig.isDone = 1 /\ sig.quits = 1 /\ sig.pc = "range"]_vars

====
